---- MODULE Spec2Model ----
(***************************************************************************)
(* Model of the FastOrderLogic backend: the Wix order synchronisation      *)
(* (routes/wix_sync.py: sync_wix_orders, reconcile_wix_orders and their    *)
(* helpers) over the relational schema the routes write to.                *)
(*                                                                         *)
(* Conventions                                                             *)
(*   - a Python None / "" / 0 that the code only ever tests with `or` /    *)
(*     `not` is the empty string "" (text), the empty sequence << >>       *)
(*     (phone digits) or 0 (numbers);                                      *)
(*   - money is an integer number of paise, so round(x, 2) and the         *)
(*     DECIMAL(10,2) columns store the value unchanged;                    *)
(*   - a table is a set of rows; the session's view of the database is     *)
(*     `sess`, the committed database is `db`: commit copies sess to db,   *)
(*     rollback copies db to sess;                                         *)
(*   - AUTO_INCREMENT counters live outside the transaction (InnoDB does   *)
(*     not give a rolled back id again).                                   *)
(***************************************************************************)
EXTENDS Integers, Sequences, FiniteSets, TLC

VARIABLES
    db,            \* committed tables
    sess,          \* tables as seen by the request's session (uncommitted included)
    autoinc,       \* next AUTO_INCREMENT value per table
    pc,            \* "idle" | "sync" | "reconcile": the request being served
    force,         \* sync_wix_orders: request.query_params.get("force") == "1"
    fix,           \* reconcile_wix_orders: the fix query parameter
    wix_orders,    \* the page fetched from the Wix order-query API
    i,             \* position of the `for w in wix_orders` loop (1-based)
    inserted,      \* sync_wix_orders counters
    skipped,
    details,       \* sync_wix_orders: List[Dict] of order_result
    loc,           \* sync_wix_orders: function locals assigned inside the line-item loop
    report,        \* reconcile_wix_orders: list of order_report
    failed_writes, \* history: rows written while processing an order that ended in failure
    answered,      \* history: what fetch_wix_order_number answered for each order (0: None)
    raised,        \* history: the statements that raised while each order was processed
    now,           \* the clock: int(datetime.utcnow().timestamp())
    resp,          \* orders.py: the response to the last request of that router
    req            \* orders.py: the request that response answers

vars == <<db, sess, autoinc, pc, force, fix, wix_orders, i, inserted, skipped,
          details, loc, report, failed_writes, answered, raised, now, resp, req>>

-----------------------------------------------------------------------------
(* Bounds of the exploration *)

MaxPage == 2

-----------------------------------------------------------------------------
(* Program constants *)

MIN_VALID_SKU_LEN == 2
MIN_PHONE_DIGITS == 7
MOBILE_ZFILL == 10

-----------------------------------------------------------------------------
(* Text helpers *)

Digits == <<"0", "1", "2", "3", "4", "5", "6", "7", "8", "9">>

IsDigit(ch) == \E k \in 1..10 : Digits[k] = ch

DigitVal(ch) == (CHOOSE k \in 1..10 : Digits[k] = ch) - 1

\* re.sub(r'\D', '', s) on a sequence of characters
StripNonDigits(s) == SelectSeq(s, IsDigit)

RECURSIVE DigitsToNat(_)
DigitsToNat(s) ==
    IF s = << >> THEN 0
    ELSE 10 * DigitsToNat(SubSeq(s, 1, Len(s) - 1)) + DigitVal(s[Len(s)])

RECURSIVE NatToDigits(_)
NatToDigits(n) ==
    IF n < 10 THEN <<Digits[n + 1]>>
    ELSE NatToDigits(n \div 10) \o <<Digits[(n % 10) + 1]>>

RECURSIVE Zfill(_, _)
Zfill(s, width) == IF Len(s) >= width THEN s ELSE Zfill(<<"0">> \o s, width)

\* str.upper() / str.lower() on the status words the remote sends
Upper(s) ==
    CASE s = "paid" -> "PAID"
      [] s = "Paid" -> "PAID"
      [] s = "shipped" -> "SHIPPED"
      [] s = "fulfilled" -> "FULFILLED"
      [] OTHER -> s

Lower(s) ==
    CASE s = "PAID" -> "paid"
      [] s = "Paid" -> "paid"
      [] s = "PENDING" -> "pending"
      [] s = "Offline" -> "offline"
      [] s = "WIX" -> "wix"
      [] OTHER -> s

\* safe_str: None -> "", anything else -> str(v)
safe_str_num(n) == IF n = 0 THEN "" ELSE ToString(n)

\* SQL `col LIKE '%needle%'`.  The texts of the model are such that no
\* non-empty one is a proper substring of another, so containment is
\* "needle is empty, or equal".
Like(hay, needle) == needle = "" \/ hay = needle

\* is_valid_sku
is_valid_sku(sku) ==
    /\ sku # ""
    /\ Len(sku) >= MIN_VALID_SKU_LEN
    /\ Lower(sku) \notin {"unknown", "misc", "test"}

-----------------------------------------------------------------------------
(* Remote (Wix) data.  A JSON object is a record; `present` is the truth  *)
(* value of a nested object ({} and a missing key are both falsy).  The    *)
(* two places a shipping address can sit in (logistics.shippingDestination *)
(* and shipmentDetails) are one field here.                                *)

NoAddr == [present |-> FALSE, firstName |-> "", lastName |-> "", phone |-> << >>,
           email |-> "", addressLine |-> "", postalCode |-> "", city |-> ""]

NoContact == [present |-> FALSE, firstName |-> "", lastName |-> "", phone |-> << >>,
              email |-> ""]

NoBuyer == [firstName |-> "", lastName |-> "", phone |-> << >>, email |-> "",
            addressLine |-> ""]

NoTotals == [paid |-> 0, paymentStatus |-> "", paymentDue |-> 0, total |-> 0,
             subtotal |-> 0, shipping |-> 0]

\* keys extract_price_value looks at; -1 is a missing key / null
NoPrice == [price_amount |-> -1, lineItemPrice_amount |-> -1,
            totalPriceAfterTax_amount |-> -1, price |-> -1, unitPrice |-> -1,
            sellingPrice |-> -1, total |-> -1]

PhoneAnn == <<"9", "8", "7", "-", "6", "5", "4", "3">>
PhoneShort == <<"1", "2", "-", "3">>

ItemCam == [isDict |-> TRUE, sku |-> "S1", wix_pid |-> "", title |-> "Camera",
            quantity |-> 2, prices |-> [NoPrice EXCEPT !.price_amount = 500]]

ItemLens == [isDict |-> TRUE, sku |-> "S2", wix_pid |-> "", title |-> "Lens",
             quantity |-> 1, prices |-> [NoPrice EXCEPT !.unitPrice = 300]]

ItemJunk == [isDict |-> FALSE, sku |-> "", wix_pid |-> "", title |-> "",
             quantity |-> 0, prices |-> NoPrice]

AnnContact == [present |-> TRUE, firstName |-> "Ann", lastName |-> "Lee",
               phone |-> PhoneAnn, email |-> "ann@x"]

AnnAddr == [NoAddr EXCEPT !.present = TRUE, !.addressLine = "1 Main St",
                          !.postalCode = "560001", !.city = "Pune"]

BaseOrder ==
    [number |-> 101, id |-> "a",
     lineItems |-> <<ItemCam>>,
     totals |-> NoTotals,
     paymentStatus |-> "",
     status |-> "",
     billingInfo |-> [address |-> NoAddr, contactDetails |-> NoContact,
                      paymentStatus |-> "", paymentGateway |-> "",
                      paymentGatewayInfo |-> ""],
     shippingInfo |-> [address |-> AnnAddr, contactDetails |-> AnnContact,
                       status |-> ""],
     buyerInfo |-> NoBuyer]

\* what the single-order lookup answers for a remote id (fetch_wix_order_number)
WixNumberOf(id) == CASE id = "a" -> 101 [] id = "b" -> 102 [] OTHER -> 0

\* Variations of the base order: payment signals, line items, identity, contact
OrderPaid ==
    [BaseOrder EXCEPT !.totals = [NoTotals EXCEPT !.paid = 1000, !.total = 1000,
                                                  !.subtotal = 900, !.shipping = 100]]

OrderFlagPaid == [BaseOrder EXCEPT !.totals = [NoTotals EXCEPT !.paymentStatus = "paid"]]

OrderGateway == [BaseOrder EXCEPT !.billingInfo.paymentGateway = "CAPTURED"]

OrderNotPaid ==
    [BaseOrder EXCEPT !.paymentStatus = "NOT_PAID",
                      !.billingInfo.paymentGatewayInfo = "FAILED"]

OrderShipped == [BaseOrder EXCEPT !.status = "FULFILLED"]

\* number missing: resolved by the single-order lookup, else by the id
OrderNoNumber == [BaseOrder EXCEPT !.number = 0]

\* neither number nor id
OrderNoIdentity == [BaseOrder EXCEPT !.number = 0, !.id = ""]

\* an unpaid order without line items
OrderNoItems == [BaseOrder EXCEPT !.number = 105, !.id = "e", !.lineItems = << >>]

\* an order of an anonymous buyer (no e-mail, a too short phone), shipped
OrderBob ==
    [BaseOrder EXCEPT !.number = 102, !.id = "b",
                      !.lineItems = <<ItemLens, ItemJunk>>,
                      !.status = "FULFILLED",
                      !.shippingInfo = [address |-> NoAddr, contactDetails |-> NoContact,
                                        status |-> "shipped"],
                      !.buyerInfo = [NoBuyer EXCEPT !.firstName = "Bob",
                                                    !.phone = PhoneShort]]

\* another order of the same anonymous buyer
OrderBob2 == [OrderBob EXCEPT !.number = 103, !.id = "c", !.status = ""]

\* contact present in the billing block only
OrderBilling ==
    [BaseOrder EXCEPT !.number = 104, !.id = "d",
                      !.shippingInfo = [address |-> NoAddr, contactDetails |-> NoContact,
                                        status |-> ""],
                      !.billingInfo.contactDetails = AnnContact,
                      !.billingInfo.address = AnnAddr]

\* a shipping address without a contact; the contact is in the billing block
OrderShipAddrOnly ==
    [BaseOrder EXCEPT !.number = 106, !.id = "f",
                      !.shippingInfo.contactDetails = NoContact,
                      !.billingInfo.contactDetails = AnnContact]

\* the base order after the buyer changed name, address and items
OrderChanged ==
    [BaseOrder EXCEPT !.lineItems = <<ItemCam, ItemLens>>,
                      !.shippingInfo.contactDetails.lastName = "Ray",
                      !.shippingInfo.address.addressLine = "2 Side St",
                      !.shippingInfo.status = "shipped"]

\* the remote orders the sync requests are explored on
SyncOrders ==
    {BaseOrder, OrderPaid, OrderNoItems, OrderNoNumber, OrderNoIdentity, OrderBob,
     OrderBob2, OrderShipAddrOnly}

RECURSIVE SeqsUpTo(_, _)
SeqsUpTo(S, n) ==
    IF n = 0 THEN {<< >>}
    ELSE LET shorter == SeqsUpTo(S, n - 1)
         IN shorter \cup {Append(s, x) : s \in {t \in shorter : Len(t) = n - 1}, x \in S}

PagesOf(S) == SeqsUpTo(S, MaxPage)

-----------------------------------------------------------------------------
(* Tables.  A context c = [t |-> tables, a |-> AUTO_INCREMENT counters] is *)
(* threaded through the helpers; a helper answers [c, ret, raised].        *)

Catalog == {[product_id |-> 1, name |-> [title |-> "Camera", sku |-> ""],
             sku_id |-> "S1"]}

EmptyTables ==
    [orders |-> {}, order_items |-> {}, customer |-> {}, offline_customer |-> {},
     address |-> {}, products |-> Catalog, order_details |-> {},
     device_transaction |-> {}]

InitAutoinc ==
    [order_items |-> 1, customer |-> 1, offline_customer |-> 1, address |-> 1,
     products |-> 2, device_transaction |-> 1]

\* `... LIMIT 1` without ORDER BY: the row with the smallest primary key
FirstBy(S, key) ==
    IF S = {} THEN {} ELSE {CHOOSE r \in S : \A q \in S : r[key] <= q[key]}

\* find_customer: by mobile, else by email; {} is None
find_customer(t, mobile, email) ==
    LET bym == FirstBy({r \in t.customer : r.mobile = mobile}, "customer_id")
        bye == FirstBy({r \in t.customer : r.email = email}, "customer_id")
    IN IF mobile # << >> /\ bym # {} THEN bym
       ELSE IF email # "" /\ bye # {} THEN bye
       ELSE {}

\* create_customer: INSERT and LAST_INSERT_ID(); when the INSERT raises, the
\* result of find_customer (a row or None, not an id)
create_customer(c, name, mobile, email, fails) ==
    IF "customer" \in fails
    THEN LET again == find_customer(c.t, mobile, email)
         IN [c |-> c,
             ret |-> IF again = {} THEN [kind |-> "none", id |-> 0]
                     ELSE [kind |-> "row", id |-> (CHOOSE r \in again : TRUE).customer_id],
             raised |-> FALSE]
    ELSE LET cid == c.a.customer
             row == [customer_id |-> cid, name |-> name, mobile |-> mobile,
                     email |-> email]
         IN [c |-> [t |-> [c.t EXCEPT !.customer = @ \cup {row}],
                    a |-> [c.a EXCEPT !.customer = @ + 1]],
             ret |-> [kind |-> "id", id |-> cid],
             raised |-> FALSE]

\* upsert_customer: fill the missing fields of the row found, else create
upsert_customer(c, name, mobile, email, fails) ==
    LET existing == find_customer(c.t, mobile, email)
    IN IF existing # {}
       THEN LET e == CHOOSE r \in existing : TRUE
                upd == [e EXCEPT
                          !.name = IF name # "" /\ e.name = "" THEN name ELSE @,
                          !.mobile = IF mobile # << >> /\ e.mobile = << >> THEN mobile ELSE @,
                          !.email = IF email # "" /\ e.email = "" THEN email ELSE @]
            IN IF upd = e
               THEN [c |-> c, ret |-> [kind |-> "id", id |-> e.customer_id],
                     raised |-> FALSE]
               ELSE IF "customer" \in fails
               THEN [c |-> c, ret |-> [kind |-> "none", id |-> 0], raised |-> TRUE]
               ELSE [c |-> [c EXCEPT !.t.customer = (@ \ {e}) \cup {upd}],
                     ret |-> [kind |-> "id", id |-> e.customer_id],
                     raised |-> FALSE]
       ELSE create_customer(c, name, mobile, email, fails)

find_offline_customer_by_mobile(t, mobile) ==
    IF mobile = << >> THEN {}
    ELSE FirstBy({r \in t.offline_customer : r.mobile = mobile}, "customer_id")

\* SELECT MAX(...): 0 stands for NULL
SetMax(S) == IF S = {} THEN 0 ELSE CHOOSE x \in S : \A y \in S : y <= x

\* generate_synthetic_mobile: MAX(CAST(mobile AS UNSIGNED)) + 1, zfill(10)
generate_synthetic_mobile(t) ==
    LET numeric == {r \in t.offline_customer :
                       r.mobile # << >> /\ \A k \in 1..Len(r.mobile) : IsDigit(r.mobile[k])}
        mx == SetMax({DigitsToNat(r.mobile) : r \in numeric})
    IN Zfill(NatToDigits(mx + 1), MOBILE_ZFILL)

\* utcnow().strftime("000%y%m%d%H%M%S")[:15], used when every candidate is taken
TimestampMobile == <<"0", "0", "0", "2", "6", "0", "1", "0", "1", "0", "0", "0", "0", "0", "0">>

\* create_or_get_offline_customer
create_or_get_offline_customer(c, name, mobile0, email, fails) ==
    LET mobile == IF mobile0 # << >> /\ Len(mobile0) < MIN_PHONE_DIGITS THEN << >> ELSE mobile0
        existing == find_offline_customer_by_mobile(c.t, mobile)
        cand == generate_synthetic_mobile(c.t)
        use_mobile == IF mobile # << >> THEN mobile
                      ELSE IF find_offline_customer_by_mobile(c.t, cand) = {} THEN cand
                      ELSE TimestampMobile
        cid == c.a.offline_customer
        row == [customer_id |-> cid, name |-> name, mobile |-> use_mobile, email |-> email]
        retry == find_offline_customer_by_mobile(c.t, use_mobile)
    IN IF mobile # << >> /\ existing # {}
       THEN [c |-> c, ret |-> (CHOOSE r \in existing : TRUE).customer_id, raised |-> FALSE]
       ELSE IF "offline_customer" \in fails
       THEN IF retry # {}
            THEN [c |-> c, ret |-> (CHOOSE r \in retry : TRUE).customer_id, raised |-> FALSE]
            ELSE [c |-> c, ret |-> 0, raised |-> TRUE]
       ELSE [c |-> [t |-> [c.t EXCEPT !.offline_customer = @ \cup {row}],
                    a |-> [c.a EXCEPT !.offline_customer = @ + 1]],
             ret |-> cid, raised |-> FALSE]

\* find_existing_address
find_existing_address(t, addr, mob, pin, cty) ==
    FirstBy({r \in t.address :
                /\ (r.address_line = addr \/ Like(r.address_line, addr))
                /\ (r.mobile = mob \/ mob = << >>)
                /\ (r.pincode = pin \/ pin = "")
                /\ (r.city = cty \/ cty = "")}, "address_id")

\* create_address: INSERT with the defaults filled in, LAST_INSERT_ID()
create_address(c, payload, fails) ==
    IF "address" \in fails
    THEN [c |-> c, ret |-> 0, raised |-> TRUE]
    ELSE LET aid == c.a.address
             row == [address_id |-> aid, name |-> payload.name,
                     mobile |-> payload.mobile, pincode |-> payload.pincode,
                     address_line |-> payload.address_line, city |-> payload.city,
                     state_id |-> payload.state_id,
                     customer_id |-> payload.customer_id,
                     offline_customer_id |-> payload.offline_customer_id]
         IN [c |-> [t |-> [c.t EXCEPT !.address = @ \cup {row}],
                    a |-> [c.a EXCEPT !.address = @ + 1]],
             ret |-> aid, raised |-> FALSE]

\* find_product_by_sku
find_product_by_sku(t, sku) ==
    IF sku = "" THEN {}
    ELSE FirstBy({r \in t.products : r.sku_id = sku}, "product_id")

\* find_product_by_wix_pid: sku_id = :w OR product_id = :w (a remote product id
\* is a UUID, which MySQL compares to the integer column as 0: no row)
find_product_by_wix_pid(t, wix_pid) ==
    IF wix_pid = "" THEN {}
    ELSE FirstBy({r \in t.products : r.sku_id = wix_pid}, "product_id")

\* find_product_by_name: LOWER(name) = :n, else LOWER(name) LIKE %:n%.  A
\* product name is "title" or "title (sku)".
find_product_by_name(t, title) ==
    IF title = "" THEN {}
    ELSE LET exact == FirstBy({r \in t.products :
                                  r.name.sku = "" /\ Lower(r.name.title) = Lower(title)},
                              "product_id")
             like == FirstBy({r \in t.products : Lower(r.name.title) = Lower(title)},
                             "product_id")
         IN IF exact # {} THEN exact ELSE like

\* create_product_fallback
create_product_fallback(c, sku, title, fails) ==
    IF "product" \in fails
    THEN [c |-> c, ret |-> {}, raised |-> TRUE]
    ELSE LET pid == c.a.products
             row == [product_id |-> pid, name |-> [title |-> title, sku |-> sku],
                     sku_id |-> sku]
         IN [c |-> [t |-> [c.t EXCEPT !.products = @ \cup {row}],
                    a |-> [c.a EXCEPT !.products = @ + 1]],
             ret |-> {row}, raised |-> FALSE]

\* ensure_unknown_product
ensure_unknown_product(c, fails) ==
    LET found == FirstBy({r \in c.t.products :
                             r.name = [title |-> "Unknown Product (auto)", sku |-> ""]},
                         "product_id")
    IN IF found # {} THEN [c |-> c, ret |-> found, raised |-> FALSE]
       ELSE create_product_fallback(c, "", "Unknown Product (auto)", fails)

-----------------------------------------------------------------------------
(* sync_wix_orders: per-order helpers *)

\* f"{fn or ''} {ln or ''}".strip()
FullName(fn, ln) ==
    IF fn = "" THEN ln ELSE IF ln = "" THEN fn ELSE fn \o " " \o ln

OrElse(a, b) == IF a # "" THEN a ELSE b

OrElseSeq(a, b) == IF a # << >> THEN a ELSE b

OrElseNum(a, b) == IF a # 0 THEN a ELSE b

\* _extract_address_info: the shipping block when it has an address or a
\* contact, else the billing block when it has one, else the buyer
_extract_address_info(w) ==
    LET ship_addr == w.shippingInfo.address
        ship_contact == w.shippingInfo.contactDetails
        bill_addr == w.billingInfo.address
        bill_contact == w.billingInfo.contactDetails
        buyer == w.buyerInfo
        Block(addr, contact) ==
            LET fn == OrElse(contact.firstName, addr.firstName)
                ln == OrElse(contact.lastName, addr.lastName)
            IN [fullName |-> FullName(fn, ln),
                firstName |-> fn,
                lastName |-> ln,
                phone |-> OrElseSeq(contact.phone, addr.phone),
                email |-> OrElse(addr.email, contact.email),
                addressLine1 |-> addr.addressLine,
                postalCode |-> addr.postalCode,
                city |-> addr.city]
    IN IF ship_addr.present \/ ship_contact.present THEN Block(ship_addr, ship_contact)
       ELSE IF bill_addr.present \/ bill_contact.present THEN Block(bill_addr, bill_contact)
       ELSE [fullName |-> FullName(buyer.firstName, buyer.lastName),
             firstName |-> buyer.firstName,
             lastName |-> buyer.lastName,
             phone |-> buyer.phone,
             email |-> buyer.email,
             addressLine1 |-> buyer.addressLine,
             postalCode |-> "",
             city |-> ""]

\* extract_price_value.  A value under a key is a number n >= 0 (a number,
\* or a text float() reads), or
\*   -1  the key is missing or null,
\*   -2  a text no digit of which is left by re.sub(r'[^\d.\-]', '', ...): 0.0,
\*   -3  a text whose remainder float() rejects ("1.2.3"): the next candidate,
\*   -4  (price only) a dict without "amount", or with a null one.
\* The candidates, in the order of the list (lines 308-316):
PriceCandidates(p) ==
    <<IF p.price_amount # -1 THEN p.price_amount
      ELSE IF p.price = -4 THEN -1 ELSE p.price,
      p.lineItemPrice_amount,
      p.totalPriceAfterTax_amount,
      IF p.price_amount # -1 THEN p.price_amount
      ELSE IF p.price = -4 THEN -2 ELSE p.price,
      p.unitPrice, p.sellingPrice, p.total>>

\* the last candidate that yields a value, where the code takes the first
extract_price_value_last(li) ==
    LET hits == {k \in 1..7 : PriceCandidates(li.prices)[k] \notin {-1, -3}}
    IN IF hits = {} THEN 0
       ELSE IF PriceCandidates(li.prices)[CHOOSE k \in hits : \A m \in hits : k >= m] = -2
       THEN 0
       ELSE PriceCandidates(li.prices)[CHOOSE k \in hits : \A m \in hits : k >= m]

\* `for fn in candidates` (lines 317-334): None is passed over, so is a
\* value no float can be read from; the first other one is returned
extract_price_value(li) ==
    LET hits == {k \in 1..7 : PriceCandidates(li.prices)[k] \notin {-1, -3}}
    IN IF hits = {} THEN 0
       ELSE IF PriceCandidates(li.prices)[CHOOSE k \in hits : \A m \in hits : k <= m] = -2
       THEN 0
       ELSE PriceCandidates(li.prices)[CHOOSE k \in hits : \A m \in hits : k <= m]

\* the payment rule shared by the sync loop and detect_wix_paid_status
PaidRule(paid_amount, payment_status_raw, gateway_status) ==
    \/ paid_amount > 0
    \/ payment_status_raw \in {"PAID", "ACCEPTED", "SUCCESS"}
    \/ gateway_status \in {"SUCCESS", "PAID", "CAPTURED"}

\* (totals.paymentStatus or billing.paymentStatus or w.paymentStatus or "").upper()
payment_status_raw_of(w) ==
    Upper(OrElse(w.totals.paymentStatus,
                 OrElse(w.billingInfo.paymentStatus, w.paymentStatus)))

\* (billing.paymentGateway.transactionStatus or billing.paymentGatewayInfo.status or "").upper()
gateway_status_of(w) ==
    Upper(OrElse(w.billingInfo.paymentGateway, w.billingInfo.paymentGatewayInfo))

\* the names the line-item loop body binds after its try/except (lines 650-670)
LoopLocals(w) ==
    [bound |-> TRUE,
     totals |-> w.totals,
     payment_status_raw |-> payment_status_raw_of(w),
     gateway_status |-> gateway_status_of(w),
     paid_amount |-> w.totals.paid,
     is_paid |-> FALSE]

Unbound ==
    [bound |-> FALSE, totals |-> NoTotals, payment_status_raw |-> "",
     gateway_status |-> "", paid_amount |-> 0, is_paid |-> FALSE]

\* get_next_order_index: MAX(order_index) + 1, the current time when there is none
get_next_order_index(t, ts) ==
    LET mx == SetMax({o.order_index : o \in t.orders})
    IN IF mx = 0 THEN ts ELSE mx + 1

\* the product a line item maps to: by sku, by remote product id, by name,
\* else a product created on the spot
ResolveProduct(c, li, fails) ==
    LET by_sku == IF is_valid_sku(li.sku) THEN find_product_by_sku(c.t, li.sku) ELSE {}
        by_pid == IF by_sku = {} /\ li.wix_pid # ""
                  THEN find_product_by_wix_pid(c.t, li.wix_pid) ELSE by_sku
        by_name == IF by_pid = {} /\ li.title # ""
                   THEN find_product_by_name(c.t, li.title) ELSE by_pid
        title == OrElse(li.title, "Auto Product")
    IN IF by_name # {} THEN [c |-> c, ret |-> by_name, raised |-> FALSE]
       ELSE IF is_valid_sku(li.sku) THEN create_product_fallback(c, li.sku, title, fails)
       ELSE create_product_fallback(c, "", title, fails)

\* one pass of `for li in line_items`; acc = [c, subtotal_sum, items, reasons, loc]
LineItemStep(acc, li, w, wix_order_id, fails) ==
    IF ~li.isDict THEN acc
    ELSE LET qty == OrElseNum(li.quantity, 1)
             price == extract_price_value(li)
             total_price == qty * price
             pr == ResolveProduct(acc.c, li, fails)
             pid == (CHOOSE r \in pr.ret : TRUE).product_id
             item == [item_id |-> pr.c.a.order_items, order_id |-> wix_order_id,
                      product_id |-> pid, quantity |-> qty, unit_price |-> price,
                      total_price |-> total_price]
             out == [sku |-> li.sku, product_id |-> pid, quantity |-> qty,
                     unit_price |-> price, total_price |-> total_price]
         IN IF pr.raised
            THEN [acc EXCEPT !.subtotal_sum = @ + total_price,
                             !.reasons = @ \cup {"line_item_failed"},
                             !.loc = LoopLocals(w)]
            ELSE IF "item" \in fails
            THEN [acc EXCEPT !.c = pr.c,
                             !.subtotal_sum = @ + total_price,
                             !.items = Append(@, out),
                             !.reasons = @ \cup {"order_item_insert_failed"},
                             !.loc = LoopLocals(w)]
            ELSE [acc EXCEPT !.c = [t |-> [pr.c.t EXCEPT !.order_items = @ \cup {item}],
                                    a |-> [pr.c.a EXCEPT !.order_items = @ + 1]],
                             !.subtotal_sum = @ + total_price,
                             !.items = Append(@, out),
                             !.loc = LoopLocals(w)]

RECURSIVE LineItems(_, _, _, _, _)
LineItems(acc, lis, w, wix_order_id, fails) ==
    IF lis = << >> THEN acc
    ELSE LineItems(LineItemStep(acc, Head(lis), w, wix_order_id, fails),
                   Tail(lis), w, wix_order_id, fails)

-----------------------------------------------------------------------------
(* sync_wix_orders: the body of `for w in wix_orders`.                     *)
(* `fails` names the statements that raise while this order is processed,  *)
(* `fetched` is what fetch_wix_order_number answered (0 is None).          *)
(* The answer says what the session holds afterwards (t, a), whether the   *)
(* order's transaction was committed or rolled back, and the order_result. *)

\* the order number the order is stored under (lines 412-415)
ResolveOrderIdPreferId(w, fetched) ==
    IF w.id # "" THEN w.id ELSE safe_str_num(w.number)

ResolveOrderId(w, fetched) ==
    IF w.number # 0 THEN safe_str_num(w.number)
    ELSE IF w.id # "" /\ fetched # 0 THEN safe_str_num(fetched)
    ELSE w.id

\* CheckConstraint check_customer_type, address_id NOT NULL (models.py)
OrderRowAccepted(row) ==
    /\ (row.customer_id # 0 \/ row.offline_customer_id # 0)
    /\ row.address_id \in Nat

\* `if existing_order and not force` (line 427)
IsDuplicateInverted(existing_order, frc) == existing_order # {} /\ frc

IsDuplicate(existing_order, frc) == existing_order # {} /\ ~frc

\* UPDATE orders SET total_items, subtotal, total_amount, payment_status (force mode)
UpdateOrderReplace(old, new) == new

UpdateOrder(old, new) ==
    [old EXCEPT !.total_items = new.total_items,
                !.subtotal = new.subtotal,
                !.total_amount = new.total_amount,
                !.payment_status = new.payment_status]

\* name, phone_digits, email of the order's contact (lines 500-506)
ContactOf(w) ==
    [contact |-> _extract_address_info(w),
     name |-> OrElse(_extract_address_info(w).fullName,
                     OrElse(_extract_address_info(w).firstName,
                            OrElse(w.buyerInfo.firstName, w.buyerInfo.lastName))),
     phone_digits |->
        IF StripNonDigits(_extract_address_info(w).phone) # << >>
           /\ Len(StripNonDigits(_extract_address_info(w).phone)) < MIN_PHONE_DIGITS
        THEN << >> ELSE StripNonDigits(_extract_address_info(w).phone),
     email |-> _extract_address_info(w).email]

\* what the customer resolution (lines 509-518) leaves: the context, the
\* two ids, whether customer_id is a row instead of an id, the reasons
CustomerResolved(c, customer_id, is_row, offline_customer_id, failed) ==
    [c |-> c, customer_id |-> customer_id, customer_is_row |-> is_row,
     offline_customer_id |-> offline_customer_id, address_id |-> 0,
     reasons |-> IF failed THEN {"customer_resolution_failed"} ELSE {}]

AfterOffline(ores) ==
    IF ores.raised THEN CustomerResolved(ores.c, 0, FALSE, 0, TRUE)
    ELSE CustomerResolved(ores.c, 0, FALSE, ores.ret, FALSE)

AfterUpsert(cres, k, fails) ==
    IF cres.raised THEN CustomerResolved(cres.c, 0, FALSE, 0, TRUE)
    ELSE IF cres.ret.kind = "none"
    THEN AfterOffline(create_or_get_offline_customer(cres.c, k.name, k.phone_digits,
                                                     k.email, fails))
    ELSE CustomerResolved(cres.c, cres.ret.id, cres.ret.kind = "row", 0, FALSE)

CustomerStage(c0, k, fails) ==
    AfterUpsert(upsert_customer(c0, k.name, k.phone_digits, k.email, fails), k, fails)

\* address handling (lines 520-556); a customer_id that is a row cannot be
\* bound as a parameter of the INSERT
AddressStage(s, k, fails) ==
    LET existing_addr == find_existing_address(s.c.t, k.contact.addressLine1,
                                               k.phone_digits, k.contact.postalCode,
                                               k.contact.city)
        addr_payload == [name |-> OrElse(k.name, "Wix Customer"),
                         mobile |-> k.phone_digits,
                         pincode |-> k.contact.postalCode,
                         address_line |-> k.contact.addressLine1,
                         city |-> k.contact.city,
                         state_id |-> 1,
                         customer_id |-> s.customer_id,
                         offline_customer_id |-> IF s.customer_id # 0 THEN 0
                                                 ELSE s.offline_customer_id]
        ares == create_address(s.c, addr_payload,
                               IF s.customer_is_row THEN {"address"} ELSE fails)
    IN IF existing_addr # {}
       THEN [s EXCEPT !.address_id = (CHOOSE r \in existing_addr : TRUE).address_id]
       ELSE IF ares.raised
       THEN [s EXCEPT !.reasons = @ \cup {"address_handling_failed"}]
       ELSE [s EXCEPT !.c = ares.c, !.address_id = ares.ret]

\* force: DELETE the order's items for recreation (lines 571-577); a failure
\* is logged only
DeleteStage(s, existing_order, frc, wix_order_id, fails) ==
    IF existing_order # {} /\ frc /\ "delete" \notin fails
    THEN [s EXCEPT !.c.t.order_items = {it \in @ : it.order_id # wix_order_id}]
    ELSE s

\* the order_result and what the session holds after the order
SyncResult(t, a, lc, end, id, status, reasons, items) ==
    [t |-> t, a |-> a, loc |-> lc, end |-> end,
     entry |-> [wix_order_id |-> id, status |-> status, reasons |-> reasons,
                items |-> items]]

\* payment, totals and the orders row (lines 648-772), from the names the
\* line-item loop has bound; li is what the loop leaves
OrderStage(s, li, w, wix_order_id, existing_order, fails, ts) ==
    LET lc == li.loc
        is_paid == IF PaidRule(lc.paid_amount, lc.payment_status_raw, lc.gateway_status)
                   THEN TRUE ELSE lc.is_paid
        lc2 == [lc EXCEPT !.is_paid = is_paid]
        order_row == [order_id |-> wix_order_id,
                      customer_id |-> s.customer_id,
                      offline_customer_id |-> s.offline_customer_id,
                      address_id |-> s.address_id,
                      total_items |-> Len(w.lineItems),
                      subtotal |-> OrElseNum(lc.totals.subtotal, li.subtotal_sum),
                      total_amount |-> OrElseNum(lc.totals.paymentDue,
                                                 OrElseNum(lc.totals.total,
                                                           li.subtotal_sum)),
                      channel |-> "wix",
                      payment_status |-> IF is_paid THEN "paid" ELSE "pending",
                      delivery_status |-> "NOT_SHIPPED",
                      order_index |-> get_next_order_index(li.c.t, ts),
                      order_status |-> "",
                      payment_type |-> "online",
                      awb_number |-> "",
                      invoice_number |-> ""]
        old == CHOOSE o \in existing_order : TRUE
        written == IF existing_order = {}
                   THEN [li.c.t EXCEPT !.orders = @ \cup {order_row}]
                   ELSE [li.c.t EXCEPT !.orders = (@ \ {old}) \cup
                                                  {UpdateOrder(old, order_row)}]
        order_raises == \/ "order" \in fails
                        \/ existing_order = {} /\ ~OrderRowAccepted(order_row)
                        \/ existing_order = {} /\ s.customer_is_row
    IN IF ~li.loc.bound
       THEN \* UnboundLocalError at `if paid_amount > 0`: the outer except
            SyncResult(li.c.t, li.c.a, li.loc, "unexpected", w.id, "skipped",
                       {"unexpected"}, << >>)
       ELSE IF "index" \in fails
       THEN SyncResult(li.c.t, li.c.a, lc2, "unexpected", w.id, "skipped",
                       {"unexpected"}, << >>)
       ELSE IF order_raises
       THEN SyncResult(li.c.t, li.c.a, lc2, "rollback", wix_order_id, "skipped",
                       li.reasons \cup {"order_insert_failed"}, << >>)
       ELSE SyncResult(written, li.c.a, lc2, "commit", wix_order_id, "inserted",
                       li.reasons, li.items)

\* customer, address, deletion, line items, then the order
ProcessOrder(s, loc0, w, wix_order_id, existing_order, fails, ts) ==
    OrderStage(s,
               LineItems([c |-> s.c, subtotal_sum |-> 0, items |-> << >>,
                          reasons |-> s.reasons, loc |-> loc0],
                         w.lineItems, w, wix_order_id, fails),
               w, wix_order_id, existing_order, fails, ts)

SyncResolved(t0, a0, loc0, w, wix_order_id, fails, frc, ts) ==
    IF wix_order_id = ""
    THEN SyncResult(t0, a0, loc0, "skip", wix_order_id, "skipped",
                    {"missing_order_id"}, << >>)
    ELSE IF "dupcheck" \in fails
    THEN SyncResult(t0, a0, loc0, "unexpected", w.id, "skipped", {"unexpected"}, << >>)
    ELSE IF IsDuplicate({o \in t0.orders : o.order_id = wix_order_id}, frc)
    THEN SyncResult(t0, a0, loc0, "skip", wix_order_id, "skipped",
                    {"duplicate_order_id"}, << >>)
    ELSE ProcessOrder(
            DeleteStage(AddressStage(CustomerStage([t |-> t0, a |-> a0], ContactOf(w),
                                                   fails),
                                     ContactOf(w), fails),
                        {o \in t0.orders : o.order_id = wix_order_id}, frc,
                        wix_order_id, fails),
            loc0, w, wix_order_id, {o \in t0.orders : o.order_id = wix_order_id},
            fails, ts)

SyncOne(t0, a0, loc0, w, fetched, fails, frc, ts) ==
    SyncResolved(t0, a0, loc0, w, ResolveOrderId(w, fetched), fails, frc, ts)

-----------------------------------------------------------------------------
(* reconcile_wix_orders: helpers *)

\* detect_wix_paid_status
detect_wix_paid_status(w) ==
    IF PaidRule(w.totals.paid, payment_status_raw_of(w), gateway_status_of(w))
    THEN "paid" ELSE "pending"

\* the sum of round(price * qty, 2) over the line items (lines 908-916)
RECURSIVE wix_subtotal_sum(_)
wix_subtotal_sum(lis) ==
    IF lis = << >> THEN 0
    ELSE extract_price_value(Head(lis)) * OrElseNum(Head(lis).quantity, 1)
         + wix_subtotal_sum(Tail(lis))

\* wix_amounts: <<subtotal_val, payment_due>>
wix_amounts(w, subtotal_sum) ==
    <<OrElseNum(w.totals.subtotal, subtotal_sum),
      OrElseNum(w.totals.paymentDue, OrElseNum(w.totals.total, subtotal_sum))>>

\* the delivery marker of the remote order (lines 968-974)
wix_delivery_status_of(w) ==
    IF Upper(w.status) \in {"COMPLETED", "FULFILLED", "SHIPPED"} THEN "SHIPPED"
    ELSE IF Upper(w.shippingInfo.status) \in {"FULFILLED", "SHIPPED", "COMPLETED"}
    THEN "SHIPPED"
    ELSE "NOT_SHIPPED"

\* wix_contact: shipping, else billing, else buyer (lines 990-1022); the name
\* is first + " " + last, stripped where it is compared or written
wix_contact_of(w) ==
    LET ship_addr == w.shippingInfo.address
        ship_contact == w.shippingInfo.contactDetails
        bill_addr == w.billingInfo.address
        bill_contact == w.billingInfo.contactDetails
        buyer == w.buyerInfo
        Block(addr, contact) ==
            [first |-> OrElse(contact.firstName, addr.firstName),
             last |-> OrElse(contact.lastName, addr.lastName),
             mobile |-> StripNonDigits(OrElseSeq(contact.phone, addr.phone)),
             email |-> OrElse(addr.email, contact.email)]
    IN IF ship_addr.present \/ ship_contact.present THEN Block(ship_addr, ship_contact)
       ELSE IF bill_addr.present \/ bill_contact.present THEN Block(bill_addr, bill_contact)
       ELSE [first |-> buyer.firstName, last |-> buyer.lastName,
             mobile |-> StripNonDigits(buyer.phone), email |-> buyer.email]

\* UPDATE orders SET <field> = :v WHERE order_id = :oid
SetOrderField(t, oid, field, val) ==
    [t EXCEPT !.orders = {IF r.order_id = oid THEN [r EXCEPT ![field] = val] ELSE r : r \in @}]

\* the rows of a SELECT without ORDER BY, in primary key order
RECURSIVE ItemsInOrder(_)
ItemsInOrder(S) ==
    IF S = {} THEN << >>
    ELSE LET first == CHOOSE r \in S : \A q \in S : r.item_id <= q.item_id
         IN <<first>> \o ItemsInOrder(S \ {first})

\* {"sku", "quantity", "unit_price", "total_price"} per remote line item
wix_items_norm_of(lis) ==
    [k \in 1..Len(lis) |->
        [sku |-> lis[k].sku,
         quantity |-> OrElseNum(lis[k].quantity, 1),
         unit_price |-> extract_price_value(lis[k]),
         total_price |-> extract_price_value(lis[k]) * OrElseNum(lis[k].quantity, 1)]]

\* the indexes at which the stored item and the remote item differ
line_mismatches_of(t, db_items, norm) ==
    {k \in 1..Len(norm) :
        LET has == k <= Len(db_items)
            prod == IF has /\ db_items[k].product_id # 0
                    THEN FirstBy({r \in t.products : r.product_id = db_items[k].product_id},
                                 "product_id")
                    ELSE {}
            db_sku == IF prod = {} THEN "" ELSE (CHOOSE r \in prod : TRUE).sku_id
        IN ~(/\ db_sku = norm[k].sku
             /\ has
             /\ db_items[k].quantity = norm[k].quantity
             /\ db_items[k].unit_price = norm[k].unit_price)}

\* the line item fix: the INSERTs of the recreation, one remote item at a time
RECURSIVE RecreateItems(_, _, _, _)
RecreateItems(c, norm, oid, fails) ==
    IF norm = << >> THEN c
    ELSE LET it == Head(norm)
             by_sku == find_product_by_sku(c.t, it.sku)
             pr == IF by_sku # {} THEN [c |-> c, ret |-> by_sku, raised |-> FALSE]
                   ELSE ensure_unknown_product(c, fails)
             row == [item_id |-> pr.c.a.order_items, order_id |-> oid,
                     product_id |-> (CHOOSE r \in pr.ret : TRUE).product_id,
                     quantity |-> it.quantity, unit_price |-> it.unit_price,
                     total_price |-> it.total_price]
         IN RecreateItems([t |-> [pr.c.t EXCEPT !.order_items = @ \cup {row}],
                           a |-> [pr.c.a EXCEPT !.order_items = @ + 1]],
                          Tail(norm), oid, fails)

\* fixes = bool(int(fix))
bool_int_always(n) == TRUE

bool_int(n) == n # 0

\* `except Exception: db.rollback()` of a fix: the session is back at the
\* committed tables
OnFixFailureKeep(committed, pending) == pending

OnFixFailure(committed, pending) == committed

\* One `if <differs>: differences.append; if fixes: try ... commit / except
\* ... rollback` block.  s = [db, sess, a, differences, fixed, fix_failed];
\* `pending` is the session after the block's statements.  A block that
\* fails does so at its last statement.
FixFieldNoCommit(s, diff, fixname, failkey, differs, pending, fx, fails) ==
    IF ~differs THEN s
    ELSE LET s1 == [s EXCEPT !.differences = @ \cup {diff}]
         IN IF ~fx THEN s1
            ELSE IF failkey \in fails
            THEN [s1 EXCEPT !.sess = s.db, !.a = pending.a,
                            !.fix_failed = @ \cup {failkey}]
            ELSE [s1 EXCEPT !.sess = pending.t, !.a = pending.a,
                            !.fixed = @ \cup {fixname}]

FixField(s, diff, fixname, failkey, differs, pending, fx, fails) ==
    IF ~differs THEN s
    ELSE LET s1 == [s EXCEPT !.differences = @ \cup {diff}]
         IN IF ~fx THEN s1
            ELSE IF failkey \in fails
            THEN [s1 EXCEPT !.sess = OnFixFailure(s.db, pending.t),
                            !.a = pending.a,
                            !.fix_failed = @ \cup {failkey}]
            ELSE [s1 EXCEPT !.sess = pending.t, !.db = pending.t, !.a = pending.a,
                            !.fixed = @ \cup {fixname}]

-----------------------------------------------------------------------------
(* reconcile_wix_orders: the body of `for w in wix_orders`.                *)
(* t0 is the session (and, between two blocks, the committed database);    *)
(* the answer has the committed tables, the session and the order_report.  *)

\* the order_report and what the database and the session hold afterwards
Report(s, w, wix_order_id, db_order_id, err) ==
    [db |-> s.db, sess |-> s.sess, a |-> s.a,
     entry |-> [wix_id |-> w.id, wix_order_id |-> wix_order_id,
                db_order_id |-> IF err THEN "" ELSE db_order_id,
                differences |-> IF err THEN {} ELSE s.differences,
                fixed |-> IF err THEN {} ELSE s.fixed,
                fix_failed |-> IF err THEN {} ELSE s.fix_failed,
                error |-> err]]

\* 1) payment_status ... 4) delivery_status (lines 921-987); o is the row
\* read at the start of the pass
FixPaymentStatus(s, o, w, fx, fails) ==
    FixField(s, "payment_status", "payment_status", "payment_status",
             Lower(o.payment_status) # detect_wix_paid_status(w),
             [t |-> SetOrderField(s.sess, o.order_id, "payment_status",
                                  detect_wix_paid_status(w)),
              a |-> s.a],
             fx, fails)

FixSubtotal(s, o, w, fx, fails) ==
    FixField(s, "subtotal", "subtotal", "subtotal",
             o.subtotal # wix_amounts(w, wix_subtotal_sum(w.lineItems))[1],
             [t |-> SetOrderField(s.sess, o.order_id, "subtotal",
                                  wix_amounts(w, wix_subtotal_sum(w.lineItems))[1]),
              a |-> s.a],
             fx, fails)

FixTotalAmount(s, o, w, fx, fails) ==
    FixField(s, "total_amount", "total_amount", "total_amount",
             o.total_amount # wix_amounts(w, wix_subtotal_sum(w.lineItems))[2],
             [t |-> SetOrderField(s.sess, o.order_id, "total_amount",
                                  wix_amounts(w, wix_subtotal_sum(w.lineItems))[2]),
              a |-> s.a],
             fx, fails)

FixDeliveryStatus(s, o, w, fx, fails) ==
    FixField(s, "delivery_status", "delivery_status", "delivery_status",
             Upper(o.delivery_status) # wix_delivery_status_of(w),
             [t |-> SetOrderField(s.sess, o.order_id, "delivery_status",
                                  wix_delivery_status_of(w)),
              a |-> s.a],
             fx, fails)

\* 5) customer (lines 989-1066): the customer row, else the offline
\* customer row, else a customer is created and attached
CustomerDiffers(rows, wc) ==
    /\ rows # {}
    /\ \E r \in rows : \/ r.name # FullName(wc.first, wc.last)
                       \/ r.mobile # wc.mobile
                       \/ r.email # wc.email

CustomerUpdated(table, id, wc) ==
    {IF r.customer_id = id
     THEN [r EXCEPT !.name = FullName(wc.first, wc.last), !.mobile = wc.mobile,
                    !.email = wc.email]
     ELSE r : r \in table}

CustomerAttached(created, oid) ==
    [t |-> SetOrderField(created.c.t, oid, "customer_id", created.ret.id),
     a |-> created.c.a]

FixCustomer(s, o, wc, fx, fails) ==
    IF o.customer_id # 0
    THEN FixField(s, "customer", "customer", "customer",
                  CustomerDiffers(FirstBy({r \in s.sess.customer :
                                              r.customer_id = o.customer_id},
                                          "customer_id"), wc),
                  [t |-> [s.sess EXCEPT !.customer = CustomerUpdated(@, o.customer_id, wc)],
                   a |-> s.a],
                  fx, fails)
    ELSE IF o.offline_customer_id # 0
    THEN FixField(s, "offline_customer", "offline_customer", "customer",
                  CustomerDiffers(FirstBy({r \in s.sess.offline_customer :
                                              r.customer_id = o.offline_customer_id},
                                          "customer_id"), wc),
                  [t |-> [s.sess EXCEPT !.offline_customer =
                             CustomerUpdated(@, o.offline_customer_id, wc)],
                   a |-> s.a],
                  fx, fails)
    ELSE FixField(s, "customer_missing", "customer_created", "customer", TRUE,
                  CustomerAttached(create_customer([t |-> s.sess, a |-> s.a],
                                                   FullName(wc.first, wc.last),
                                                   wc.mobile, wc.email, {}),
                                   o.order_id),
                  fx, fails)

\* 6) address (lines 1068-1141): the shipping address only; the fix creates
\* an address and attaches it
AddressAttached(new_addr, oid) ==
    [t |-> SetOrderField(new_addr.c.t, oid, "address_id", new_addr.ret),
     a |-> new_addr.c.a]

NewAddress(s, o, w, wc, db_addr) ==
    create_address([t |-> s.sess, a |-> s.a],
                   [name |-> wc.first \o " " \o wc.last,
                    mobile |-> wc.mobile,
                    pincode |-> w.shippingInfo.address.postalCode,
                    address_line |-> w.shippingInfo.address.addressLine,
                    city |-> w.shippingInfo.address.city,
                    state_id |-> IF db_addr = {} THEN 1
                                 ELSE OrElseNum((CHOOSE r \in db_addr : TRUE).state_id, 1),
                    customer_id |-> o.customer_id,
                    offline_customer_id |-> IF o.customer_id # 0 THEN 0
                                            ELSE o.offline_customer_id],
                   {})

FixAddressOf(s, o, w, wc, db_addr, fx, fails) ==
    IF db_addr # {}
    THEN FixField(s, "address", "address", "address",
                  \E r \in db_addr :
                     \/ r.address_line # w.shippingInfo.address.addressLine
                     \/ r.pincode # w.shippingInfo.address.postalCode
                     \/ r.city # w.shippingInfo.address.city,
                  AddressAttached(NewAddress(s, o, w, wc, db_addr), o.order_id),
                  fx, fails)
    ELSE FixField(s, "address_missing_in_db", "address_created", "address", TRUE,
                  AddressAttached(NewAddress(s, o, w, wc, db_addr), o.order_id),
                  fx, fails)

FixAddress(s, o, w, wc, fx, fails) ==
    FixAddressOf(s, o, w, wc,
                 FirstBy({r \in s.sess.address : r.address_id = o.address_id},
                         "address_id"),
                 fx, fails)

\* 7) line items (lines 1143-1195): the count is reported only, a mismatch
\* at an index is fixed by recreating the items
CountChecked(s, db_items, norm) ==
    IF Len(db_items) # Len(norm)
    THEN [s EXCEPT !.differences = @ \cup {"line_items_count"}] ELSE s

FixLineItemsOf(s, oid, db_items, norm, fx, fails) ==
    FixField(CountChecked(s, db_items, norm),
             "line_items_details", "line_items_recreated", "line_items",
             line_mismatches_of(s.sess, db_items, norm) # {},
             RecreateItems([t |-> [s.sess EXCEPT !.order_items =
                                      {r \in @ : r.order_id # oid}],
                            a |-> s.a],
                           norm, oid, {}),
             fx, fails)

FixLineItems(s, o, w, fx, fails) ==
    FixLineItemsOf(s, o.order_id,
                   ItemsInOrder({r \in s.sess.order_items : r.order_id = o.order_id}),
                   wix_items_norm_of(w.lineItems), fx, fails)

\* the seven blocks, in the order of the code
ReconcileFound(s0, o, w, wix_order_id, fails, fx) ==
    Report(FixLineItems(
             FixAddress(
               FixCustomer(
                 FixDeliveryStatus(
                   FixTotalAmount(
                     FixSubtotal(
                       FixPaymentStatus(s0, o, w, fx, fails),
                       o, w, fx, fails),
                     o, w, fx, fails),
                   o, w, fx, fails),
                 o, wix_contact_of(w), fx, fails),
               o, w, wix_contact_of(w), fx, fails),
             o, w, fx, fails),
           w, wix_order_id, o.order_id, FALSE)

ReconcileLookedUp(s0, found, w, wix_order_id, fails, fx) ==
    IF "read" \in fails
    THEN \* the SELECT of the order raises: the per-order except
         Report(s0, w, wix_order_id, "", TRUE)
    ELSE IF found = {}
    THEN Report([s0 EXCEPT !.differences = {"missing_in_db"}], w, wix_order_id, "", FALSE)
    ELSE IF \E k \in 1..Len(w.lineItems) : ~w.lineItems[k].isDict
    THEN \* li.get on something that is not a dict: the per-order except
         Report(s0, w, wix_order_id, "", TRUE)
    ELSE ReconcileFound(s0, CHOOSE r \in found : TRUE, w, wix_order_id, fails, fx)

\* wix_identifier = number or id
WixIdentifier(w) == IF w.number # 0 THEN safe_str_num(w.number) ELSE w.id

ReconcileOne(t0, d0, a0, w, fails, fx) ==
    ReconcileLookedUp([db |-> d0, sess |-> t0, a |-> a0, differences |-> {},
                       fixed |-> {}, fix_failed |-> {}],
                      FirstBy({o \in t0.orders : o.order_id = WixIdentifier(w)},
                              "order_index"),
                      w, WixIdentifier(w), fails, fx)

-----------------------------------------------------------------------------
(* The states a request starts in *)

\* The database a request finds: nothing but the catalogue, or what an
\* earlier sync of one order has committed.
Synced(w, fetched) ==
    LET r == SyncOne(EmptyTables, InitAutoinc, Unbound, w, fetched, {}, FALSE, 1000)
    IN [t |-> r.t, a |-> r.a]

\* ... and what a reconcile with fix=1 has corrected after it
Reconciled(w, later) ==
    LET s == Synced(w, 0)
        r == ReconcileOne(s.t, s.t, s.a, later, {}, TRUE)
    IN [t |-> r.db, a |-> r.a]

\* no request of the orders router has been answered yet
NoResponse == [op |-> "", status |-> 0, order_id |-> "", detail |-> ""]

NoRequest == [op |-> "", order_id |-> "", data |-> << >>]

InitStates ==
    {[t |-> EmptyTables, a |-> InitAutoinc], Synced(BaseOrder, 0),
     Synced(OrderNoNumber, 0), Synced(OrderBob, 0),
     Reconciled(BaseOrder, OrderShipped)}

Init ==
    /\ \E s \in InitStates : db = s.t /\ sess = s.t /\ autoinc = s.a
    /\ pc = "idle"
    /\ force = FALSE
    /\ fix = 0
    /\ wix_orders = << >>
    /\ i = 1
    /\ inserted = 0
    /\ skipped = 0
    /\ details = << >>
    /\ loc = Unbound
    /\ report = << >>
    /\ failed_writes = {}
    /\ answered = << >>
    /\ raised = << >>
    /\ now = 1000
    /\ resp = NoResponse
    /\ req = NoRequest

-----------------------------------------------------------------------------
(* sync_wix_orders: the request *)

\* the statements of the loop body that can raise, one at most per order,
\* or the customer and the offline customer INSERT together
SyncFailCases ==
    {{}, {"dupcheck"}, {"customer"}, {"customer", "offline_customer"}, {"address"},
     {"delete"}, {"product"}, {"item"}, {"index"}, {"order"}}

\* fetch_wix_order_number is called only when the number is missing and
\* answers None unless the call succeeds
FetchAnswers(w) ==
    IF w.number = 0 /\ w.id # "" THEN {0, WixNumberOf(w.id)} ELSE {0}

Rows(t) ==
    {<<"orders", r>> : r \in t.orders} \cup
    {<<"order_items", r>> : r \in t.order_items} \cup
    {<<"customer", r>> : r \in t.customer} \cup
    {<<"offline_customer", r>> : r \in t.offline_customer} \cup
    {<<"address", r>> : r \in t.address} \cup
    {<<"products", r>> : r \in t.products}

\* details.append(order_result): on every path through the loop body
AppendResultNotOnError(dets, entry) ==
    IF entry.reasons = {"unexpected"} THEN dets ELSE Append(dets, entry)

AppendResult(dets, entry) == Append(dets, entry)

\* GET /sync/wix[?force=1]: the page is fetched, the loop starts
SyncStart(frc, page) ==
    /\ pc = "idle"
    /\ pc' = "sync"
    /\ force' = frc
    /\ wix_orders' = page
    /\ i' = 1
    /\ inserted' = 0
    /\ skipped' = 0
    /\ details' = << >>
    /\ loc' = Unbound
    /\ sess' = db
    /\ failed_writes' = {}
    /\ answered' = << >>
    /\ raised' = << >>
    /\ UNCHANGED <<db, autoinc, fix, report, now, resp, req>>

\* the effect of a pass whose outcome is r: commit, rollback or neither;
\* `quiet` is the outcome had nothing raised
SyncApply(r, quiet, fails) ==
    /\ fails = {} \/ r # quiet    \* the statements named in `fails` were reached
    /\ db' = IF r.end = "commit" THEN r.t ELSE db
    /\ sess' = IF r.end = "rollback" THEN db ELSE r.t
    /\ autoinc' = r.a
    /\ loc' = r.loc
    /\ inserted' = IF r.entry.status = "inserted" THEN inserted + 1 ELSE inserted
    /\ skipped' = IF r.entry.status = "skipped" THEN skipped + 1 ELSE skipped
    /\ details' = AppendResult(details, r.entry)
    /\ failed_writes' = IF r.end \in {"rollback", "unexpected"}
                        THEN failed_writes \cup (Rows(r.t) \ Rows(sess))
                        ELSE failed_writes

\* one pass of `for w in wix_orders`
SyncOrder(fails, fetched) ==
    /\ pc = "sync"
    /\ i <= Len(wix_orders)
    /\ fetched \in FetchAnswers(wix_orders[i])
    /\ SyncApply(SyncOne(sess, autoinc, loc, wix_orders[i], fetched, fails, force, now),
                 SyncOne(sess, autoinc, loc, wix_orders[i], fetched, {}, force, now),
                 fails)
    /\ answered' = Append(answered, fetched)
    /\ raised' = Append(raised, fails)
    /\ i' = i + 1
    /\ UNCHANGED <<pc, force, fix, wix_orders, report, now, resp, req>>

\* the response is returned and get_db closes the session
SyncFinish ==
    /\ pc = "sync"
    /\ i > Len(wix_orders)
    /\ pc' = "done"
    /\ sess' = db
    /\ wix_orders' = << >>
    /\ i' = 1
    /\ inserted' = 0
    /\ skipped' = 0
    /\ details' = << >>
    /\ loc' = Unbound
    /\ force' = FALSE
    /\ failed_writes' = {}
    /\ answered' = << >>
    /\ raised' = << >>
    /\ UNCHANGED <<db, autoinc, fix, report, now, resp, req>>

NextSync ==
    \/ \E frc \in BOOLEAN, page \in PagesOf(SyncOrders) : SyncStart(frc, page)
    \/ \E fails \in SyncFailCases, fetched \in {0, 101} : SyncOrder(fails, fetched)
    \/ SyncFinish

SpecSync == Init /\ [][NextSync]_vars

-----------------------------------------------------------------------------
(* reconcile_wix_orders: the request *)

\* the remote orders the reconcile requests are explored on
ReconcileOrders ==
    {BaseOrder, OrderPaid, OrderFlagPaid, OrderGateway, OrderNotPaid, OrderShipped,
     OrderChanged, OrderNoNumber, OrderNoItems, OrderBob, OrderBilling}

\* the blocks whose write can raise while an order is processed
ReconcileFailCases ==
    {{}, {"read"}, {"payment_status"}, {"subtotal"}, {"total_amount"},
     {"delivery_status"}, {"customer"}, {"address"}, {"line_items"},
     {"subtotal", "delivery_status"}}

\* GET /sync/wix/reconcile[?fix=n]
ReconcileStart(fx, page) ==
    /\ pc = "idle"
    /\ pc' = "reconcile"
    /\ fix' = fx
    /\ wix_orders' = page
    /\ i' = 1
    /\ report' = << >>
    /\ raised' = << >>
    /\ sess' = db
    /\ UNCHANGED <<db, autoinc, force, inserted, skipped, details, loc, failed_writes,
                   answered, now, resp, req>>

\* the effect of a pass whose outcome is r; `quiet` is the outcome had
\* nothing raised
ReconcileApply(r, quiet, fails) ==
    /\ fails = {} \/ r # quiet    \* the blocks named in `fails` were reached
    /\ db' = r.db
    /\ sess' = r.sess
    /\ autoinc' = r.a
    /\ report' = Append(report, r.entry)

\* one pass of `for w in wix_orders`
ReconcileOrder(fails) ==
    /\ pc = "reconcile"
    /\ i <= Len(wix_orders)
    /\ ReconcileApply(
          ReconcileOne(sess, db, autoinc, wix_orders[i], fails, bool_int(fix)),
          ReconcileOne(sess, db, autoinc, wix_orders[i], {}, bool_int(fix)),
          fails)
    /\ raised' = Append(raised, fails)
    /\ i' = i + 1
    /\ UNCHANGED <<pc, force, fix, wix_orders, inserted, skipped, details, loc,
                   failed_writes, answered, now, resp, req>>

\* the summary is returned and get_db closes the session
ReconcileFinish ==
    /\ pc = "reconcile"
    /\ i > Len(wix_orders)
    /\ pc' = "done"
    /\ sess' = db
    /\ wix_orders' = << >>
    /\ i' = 1
    /\ report' = << >>
    /\ raised' = << >>
    /\ fix' = 0
    /\ UNCHANGED <<db, autoinc, force, inserted, skipped, details, loc, failed_writes,
                   answered, now, resp, req>>

NextReconcile ==
    \/ \E fx \in 0..2, page \in PagesOf(ReconcileOrders) : ReconcileStart(fx, page)
    \/ \E fails \in ReconcileFailCases : ReconcileOrder(fails)
    \/ ReconcileFinish

SpecReconcile == Init /\ [][NextReconcile]_vars

-----------------------------------------------------------------------------
(* routes/orders.py.  Every request of this router runs in a session of   *)
(* its own (get_db) that is closed when the response is out, so what a    *)
(* request has not committed is gone afterwards.                          *)

\* f"{n:05d}": at least five digits
Format05d(n) ==
    IF n < 10 THEN "0000" \o ToString(n)
    ELSE IF n < 100 THEN "000" \o ToString(n)
    ELSE IF n < 1000 THEN "00" \o ToString(n)
    ELSE IF n < 10000 THEN "0" \o ToString(n)
    ELSE ToString(n)

\* the customer ids and suffixes order ids are built from in this model
CustomerIds == {7, 8, 100000}

MaxOrders == 2

Suffixes == 1..(MaxOrders + 1)

\* the order ids matching REGEXP '^[0-9]{5}#[0-9]{5}$', each with
\* CAST(SUBSTRING_INDEX(order_id, '#', -1) AS UNSIGNED)
OrderIdForms ==
    {[id |-> Format05d(p) \o "#" \o Format05d(q), suffix |-> q] :
        p \in {c \in CustomerIds : c < 100000}, q \in {x \in Suffixes : x < 100000}}

\* SELECT ... ORDER BY suffix DESC LIMIT 1; 0 stands for no row
last_suffix_of(t) ==
    SetMax({f.suffix : f \in {g \in OrderIdForms : \E o \in t.orders : o.order_id = g.id}})

\* order id generation of create_order (lines 115-131)
NewOrderId(t, data) ==
    Format05d(IF data.offline_customer_id # 0 THEN data.offline_customer_id
              ELSE data.customer_id)
    \o "#" \o
    Format05d(IF last_suffix_of(t) # 0 THEN last_suffix_of(t) + 1 ELSE 1)

\* round(n / d, 2) on amounts kept in paise: to the nearest, ties to even
RoundDiv(n, d) ==
    IF 2 * (n % d) < d THEN n \div d
    ELSE IF 2 * (n % d) > d THEN (n \div d) + 1
    ELSE IF (n \div d) % 2 = 0 THEN n \div d ELSE (n \div d) + 1

RECURSIVE SumQty(_)
SumQty(items) == IF items = << >> THEN 0 ELSE Head(items).qty + SumQty(Tail(items))

\* delivery charge calculation (lines 139-145)
delivery_per_unit(data) ==
    IF data.delivery_charge # 0 /\ SumQty(data.items) > 0
    THEN RoundDiv(data.delivery_charge, SumQty(data.items))
    ELSE 0

\* `data.channel.lower() == "offline"` (line 180)
IsOfflineExact(channel) == channel = "offline"

IsOffline(channel) == Lower(channel) = "offline"

\* new_unit_price (lines 179-184)
new_unit_price(it, data) ==
    IF IsOffline(data.channel) THEN it.final_unit_price
    ELSE it.final_unit_price + delivery_per_unit(data)

\* `for it in data.items`: the order_items row and its order_details row
\* (lines 177-212); c = [t, a, raised]
RECURSIVE InsertItems(_, _, _, _, _)
InsertItems(c, items, data, order_id, fails) ==
    IF items = << >> \/ c.raised THEN c
    ELSE IF "item" \in fails THEN [c EXCEPT !.raised = TRUE]
    ELSE IF "detail" \in fails
    THEN [c EXCEPT !.a.order_items = @ + 1, !.raised = TRUE]
    ELSE InsertItems(
            [c EXCEPT
               !.t.order_items = @ \cup
                  {[item_id |-> c.a.order_items,
                    order_id |-> order_id,
                    product_id |-> Head(items).product_id,
                    quantity |-> Head(items).qty,
                    unit_price |-> new_unit_price(Head(items), data),
                    total_price |-> new_unit_price(Head(items), data) * Head(items).qty]},
               !.t.order_details = @ \cup
                  {[item_id |-> c.a.order_items, order_id |-> order_id,
                    product_id |-> Head(items).product_id]},
               !.a.order_items = @ + 1],
            Tail(items), data, order_id, fails)

\* the Order row of create_order (lines 154-171)
NewOrderRow(data, order_id, ts) ==
    [order_id |-> order_id,
     customer_id |-> data.customer_id,
     offline_customer_id |-> data.offline_customer_id,
     address_id |-> data.address_id,
     total_items |-> data.total_items,
     subtotal |-> data.subtotal,
     total_amount |-> data.total_amount,
     channel |-> Lower(data.channel),
     payment_status |-> "pending",
     delivery_status |-> "NOT_SHIPPED",
     order_index |-> ts,
     order_status |-> "",
     payment_type |-> data.payment_type,
     awb_number |-> "",
     invoice_number |-> ""]

\* what a request leaves: the committed tables, the counters, the response
Answer(t, a, op, status, order_id, detail) ==
    [t |-> t, a |-> a,
     resp |-> [op |-> op, status |-> status, order_id |-> order_id, detail |-> detail]]

\* the second half of create_order (lines 177-221): t1 holds the order,
\* already committed; ins is what the item loop has written
CreateItemsDone(t1, ins, order_id, fails) ==
    IF ins.raised \/ "commit" \in fails
    THEN Answer(t1, ins.a, "create_order", 500, order_id, "items")
    ELSE Answer(ins.t, ins.a, "create_order", 200, order_id, "")

\* db.add(order); db.commit() (lines 173-175), then the items
CreateWithId(t, a, data, order_id, row, fails) ==
    IF \E o \in t.orders : o.order_id = order_id
    THEN Answer(t, a, "create_order", 500, order_id, "duplicate_order_id")
    ELSE IF \E o \in t.orders : o.order_index = row.order_index
    THEN Answer(t, a, "create_order", 500, order_id, "duplicate_order_index")
    ELSE IF "order" \in fails \/ ~OrderRowAccepted(row)
    THEN Answer(t, a, "create_order", 500, order_id, "order")
    ELSE CreateItemsDone([t EXCEPT !.orders = @ \cup {row}],
                         InsertItems([t |-> [t EXCEPT !.orders = @ \cup {row}],
                                      a |-> a, raised |-> FALSE],
                                     data.items, data, order_id, fails),
                         order_id, fails)

\* create_order (lines 107-221)
create_order(t, a, data, fails, ts) ==
    IF data.address_id = 0
    THEN Answer(t, a, "create_order", 400, "", "Address not selected")
    ELSE IF data.offline_customer_id = 0 /\ data.customer_id = 0
    THEN Answer(t, a, "create_order", 400, "", "Customer is required")
    ELSE CreateWithId(t, a, data, NewOrderId(t, data),
                      NewOrderRow(data, NewOrderId(t, data), ts), fails)

\* OrderCreate bodies the requests are explored on (amounts in paise)
ItemIn(pid, qty, price) == [product_id |-> pid, qty |-> qty, final_unit_price |-> price]

CreateBase ==
    [customer_id |-> 0, offline_customer_id |-> 7, address_id |-> 1,
     total_items |-> 1, subtotal |-> 100000, delivery_charge |-> 0,
     total_amount |-> 100000, payment_type |-> "cod", channel |-> "offline",
     items |-> <<ItemIn(1, 2, 50000)>>]

\* a delivery charge on an offline order, the channel in another case
CreateOfflineCharge == [CreateBase EXCEPT !.delivery_charge = 10000]

CreateOfflineCaps == [CreateBase EXCEPT !.delivery_charge = 10000, !.channel = "Offline"]

\* another channel: 100.00 over three units
CreateWeb ==
    [CreateBase EXCEPT !.channel = "web", !.offline_customer_id = 8,
                       !.delivery_charge = 10000, !.total_items = 2,
                       !.items = <<ItemIn(1, 2, 50000), ItemIn(1, 1, 30000)>>]

CreateWebNoCharge == [CreateWeb EXCEPT !.delivery_charge = 0]

\* a charge and nothing to spread it over
CreateWebNoItems == [CreateWeb EXCEPT !.total_items = 0, !.items = << >>]

CreateWebZeroQty == [CreateWeb EXCEPT !.total_items = 1, !.items = <<ItemIn(1, 0, 50000)>>]

\* an online customer, one with a six-digit id
CreateOnline == [CreateBase EXCEPT !.offline_customer_id = 0, !.customer_id = 8]

CreateOnlineBig == [CreateBase EXCEPT !.offline_customer_id = 0, !.customer_id = 100000]

CreateNoAddress == [CreateBase EXCEPT !.address_id = 0]

CreateNoCustomer == [CreateBase EXCEPT !.offline_customer_id = 0]

CreateInputs ==
    {CreateBase, CreateOfflineCharge, CreateOfflineCaps, CreateWeb, CreateWebNoCharge,
     CreateWebNoItems, CreateWebZeroQty, CreateOnline, CreateOnlineBig, CreateNoAddress,
     CreateNoCustomer}

\* the statements of create_order that can raise
CreateFailCases == {{}, {"order"}, {"item"}, {"detail"}, {"commit"}}

MaxTick == 2

\* the clock advances between requests
Tick ==
    /\ pc = "idle"
    /\ now < 1000 + MaxTick
    /\ now' = now + 1
    /\ UNCHANGED <<db, sess, autoinc, pc, force, fix, wix_orders, i, inserted, skipped,
                   details, loc, report, failed_writes, answered, raised, resp, req>>

\* the effect of a request of the orders router whose outcome is r; `quiet`
\* is the outcome had nothing raised
OrdersApply(op, order_id, data, r, quiet, fails) ==
    /\ fails = {} \/ r # quiet    \* the statements named in `fails` were reached
    /\ req' = [op |-> op, order_id |-> order_id, data |-> data]
    /\ db' = r.t
    /\ sess' = r.t
    /\ autoinc' = r.a
    /\ resp' = r.resp
    /\ UNCHANGED <<pc, force, fix, wix_orders, i, inserted, skipped, details, loc,
                   report, failed_writes, answered, raised, now>>

\* POST /orders/create
CreateOrder(data, fails) ==
    /\ pc = "idle"
    /\ Cardinality(db.orders) < MaxOrders
    /\ OrdersApply("create_order", "", data,
                   create_order(db, autoinc, data, fails, now),
                   create_order(db, autoinc, data, {}, now), fails)

\* toggle_payment: the flip (lines 568-574)
ToggledAlwaysPaid(o) == [o EXCEPT !.payment_status = "paid", !.order_status = "APPR"]

Toggled(o) ==
    IF o.payment_status = "paid"
    THEN [o EXCEPT !.payment_status = "pending", !.order_status = "PEND"]
    ELSE [o EXCEPT !.payment_status = "paid", !.order_status = "APPR"]

\* toggle_payment (lines 556-583)
toggle_payment(t, a, order_id, fails) ==
    IF ~\E o \in t.orders : o.order_id = order_id
    THEN Answer(t, a, "toggle_payment", 404, order_id, "Order not found")
    ELSE IF "commit" \in fails
    THEN Answer(t, a, "toggle_payment", 500, order_id, "commit")
    ELSE Answer([t EXCEPT !.orders = {IF o.order_id = order_id THEN Toggled(o) ELSE o :
                                         o \in @}],
                a, "toggle_payment", 200, order_id, "")

\* the order ids the requests name: those stored, and one that is not
OrderIdsAsked == {o.order_id : o \in db.orders} \cup {"nope"}

\* PUT /orders/{order_id}/toggle-payment
TogglePayment(order_id, fails) ==
    /\ pc = "idle"
    /\ OrdersApply("toggle_payment", order_id, << >>,
                   toggle_payment(db, autoinc, order_id, fails),
                   toggle_payment(db, autoinc, order_id, {}), fails)

\* the serial rows inserted in one run of the model
MaxSerialRows == 5

\* sr.strip() on the serial texts of the model
Strip(sr) ==
    CASE sr = " B2 " -> "B2"
      [] sr = "  " -> ""
      [] OTHER -> sr

\* the order_items of an order joined with products: item_map[item_id]
\* (lines 440-461); {} when the item is not of the order
ItemMap(t, order_id, item_id) ==
    {[unit_price |-> oi.unit_price,
      model_name |-> IF \E p \in t.products : p.product_id = oi.product_id
                     THEN (CHOOSE p \in t.products : p.product_id = oi.product_id).name
                     ELSE "",
      sku_id |-> IF \E p \in t.products : p.product_id = oi.product_id
                 THEN (CHOOSE p \in t.products : p.product_id = oi.product_id).sku_id
                 ELSE ""] :
     oi \in {x \in t.order_items : x.order_id = order_id /\ x.item_id = item_id}}

\* model_name of the last IN record of a serial, else the item's (lines 490-500)
correct_model_name(t, sr, item) ==
    IF \E r \in t.device_transaction : r.device_srno = sr /\ r.in_out = 1
    THEN (CHOOSE r \in t.device_transaction :
             /\ r.device_srno = sr /\ r.in_out = 1
             /\ \A q \in t.device_transaction :
                   (q.device_srno = sr /\ q.in_out = 1) => q.auto_id <= r.auto_id).model_name
    ELSE item.model_name

\* `for sr in serials` (lines 486-515)
RECURSIVE InsertSerials(_, _, _, _)
InsertSerials(c, serials, order_id, item) ==
    IF serials = << >> THEN c
    ELSE IF Strip(Head(serials)) = ""
    THEN InsertSerials(c, Tail(serials), order_id, item)
    ELSE InsertSerials(
            [c EXCEPT
               !.t.device_transaction = @ \cup
                  {[auto_id |-> c.a.device_transaction,
                    device_srno |-> Strip(Head(serials)),
                    model_name |-> correct_model_name(c.t, Strip(Head(serials)), item),
                    sku_id |-> item.sku_id,
                    order_id |-> order_id,
                    in_out |-> 2,
                    price |-> item.unit_price]},
               !.a.device_transaction = @ + 1],
            Tail(serials), order_id, item)

\* DELETE the OUT rows of the order for the item's SKU (lines 476-481); a
\* NULL sku_id compares equal to nothing
DeleteOut(c, order_id, sku) ==
    [c EXCEPT !.t.device_transaction =
        {r \in @ : ~(r.order_id = order_id /\ sku # "" /\ r.sku_id = sku /\ r.in_out = 2)}]

\* one entry whose item is of the order: delete, then insert
SaveEntry(c, entry, order_id, item) ==
    InsertSerials(DeleteOut(c, order_id, item.sku_id), entry.serials, order_id, item)

\* `for entry in entries` (lines 466-515)
RECURSIVE SaveEntries(_, _, _)
SaveEntries(c, entries, order_id) ==
    IF entries = << >> THEN c
    ELSE IF Head(entries).item_id = 0
            \/ ItemMap(c.t0, order_id, Head(entries).item_id) = {}
    THEN SaveEntries(c, Tail(entries), order_id)
    ELSE SaveEntries(SaveEntry(c, Head(entries), order_id,
                               CHOOSE m \in ItemMap(c.t0, order_id,
                                                    Head(entries).item_id) : TRUE),
                     Tail(entries), order_id)

\* serial_status (lines 523-543): the SKUs of the order that have OUT rows
serial_status(t, order_id) ==
    LET has == {oi \in {x \in t.order_items : x.order_id = order_id} :
                   \E m \in ItemMap(t, order_id, oi.item_id) :
                      \E r \in t.device_transaction :
                         r.order_id = order_id /\ r.in_out = 2 /\ r.sku_id = m.sku_id}
    IN IF has = {x \in t.order_items : x.order_id = order_id} THEN "complete"
       ELSE IF has # {} THEN "partial"
       ELSE "none"

\* the commit and the response (lines 517-548)
SerialsDone(t, a, c, order_id, fails) ==
    IF "commit" \in fails
    THEN Answer(t, c.a, "save_serial_numbers", 500, order_id, "commit")
    ELSE Answer(c.t, c.a, "save_serial_numbers", 200, order_id,
                serial_status(c.t, order_id))

\* save_serial_numbers (lines 427-548)
save_serial_numbers(t, a, order_id, entries, fails) ==
    IF entries = << >>
    THEN Answer(t, a, "save_serial_numbers", 400, order_id, "No serial data provided")
    ELSE SerialsDone(t, a, SaveEntries([t |-> t, a |-> a, t0 |-> t], entries, order_id),
                     order_id, fails)

\* the request bodies: no entry, one entry, a serial to trim and a blank
\* one, an entry for each of two items, an item that is not of the order
SerialEntry(item_id, serials) == [item_id |-> item_id, serials |-> serials]

SerialBodies(t, order_id) ==
    LET ids == {x.item_id : x \in {y \in t.order_items : y.order_id = order_id}}
        first == IF ids = {} THEN 0 ELSE CHOOSE x \in ids : \A y \in ids : x <= y
        last == SetMax(ids)
    IN {<< >>,
        <<SerialEntry(first, <<"A1">>)>>,
        <<SerialEntry(first, <<" B2 ", "  ">>)>>,
        <<SerialEntry(99, <<"A1">>)>>}
       \cup {<<SerialEntry(first, <<"A1">>), SerialEntry(last, <<"C3">>)>> :
                x \in {y \in {1} : first # last}}

\* POST /orders/{order_id}/serial_numbers/save
SaveSerialNumbers(order_id, entries, fails) ==
    /\ pc = "idle"
    /\ autoinc.device_transaction <= MaxSerialRows
    /\ OrdersApply("save_serial_numbers", order_id, entries,
                   save_serial_numbers(db, autoinc, order_id, entries, fails),
                   save_serial_numbers(db, autoinc, order_id, entries, {}), fails)

NextOrders ==
    \/ \E data \in CreateInputs, fails \in CreateFailCases : CreateOrder(data, fails)
    \/ \E order_id \in OrderIdsAsked, fails \in {{}, {"commit"}} :
          TogglePayment(order_id, fails)
    \/ Tick

SpecOrders == Init /\ [][NextOrders]_vars

\* orders are created and their serial numbers saved
NextSerials ==
    \/ \E data \in {CreateBase, CreateWeb} : CreateOrder(data, {})
    \/ \E order_id \in OrderIdsAsked :
          \E entries \in SerialBodies(db, order_id), fails \in {{}, {"commit"}} :
             SaveSerialNumbers(order_id, entries, fails)

SpecSerials == Init /\ [][NextSerials]_vars

\* The order-status endpoints (lines 346-388, 585-646): the row is looked
\* up, 404 when there is none, else the columns are assigned and committed;
\* W[o] is the row o with the endpoint's assignments
StatusWritten(t, a, op, order_id, fails, W) ==
    IF ~\E o \in t.orders : o.order_id = order_id
    THEN Answer(t, a, op, 404, order_id, "Order not found")
    ELSE IF "commit" \in fails
    THEN Answer(t, a, op, 500, order_id, "commit")
    ELSE Answer([t EXCEPT !.orders = {IF o.order_id = order_id THEN W[o] ELSE o : o \in @}],
                a, op, 200, order_id, "")

mark_as_paid(t, a, order_id, fails) ==
    StatusWritten(t, a, "mark_as_paid", order_id, fails,
                  [o \in t.orders |-> [o EXCEPT !.payment_status = "paid"]])

mark_as_fulfilled(t, a, order_id, fails) ==
    StatusWritten(t, a, "mark_as_fulfilled", order_id, fails,
                  [o \in t.orders |-> [o EXCEPT !.delivery_status = "READY"]])

mark_as_delhivery(t, a, order_id, awb, fails) ==
    StatusWritten(t, a, "mark_as_delhivery", order_id, fails,
                  [o \in t.orders |-> [o EXCEPT !.delivery_status = "SHIPPED",
                                       !.awb_number = OrElse(awb, "To be assigned")]])

mark_as_invoiced(t, a, order_id, fails) ==
    StatusWritten(t, a, "mark_as_invoiced", order_id, fails,
                  [o \in t.orders |-> [o EXCEPT !.order_status = "COMPLETED"]])

\* "INV-" + datetime.now().strftime(...) (line 608)
create_local_invoice(t, a, order_id, ts, fails) ==
    StatusWritten(t, a, "create_local_invoice", order_id, fails,
                  [o \in t.orders |-> [o EXCEPT !.invoice_number = "INV-" \o ToString(ts)]])

\* allowed = ["NOT_SHIPPED", "SHIPPED", "COMPLETED"] (lines 587, 627)
allowed == {"NOT_SHIPPED", "SHIPPED", "COMPLETED"}

\* update_delivery_status and update_delivery: the status is checked first
DeliveryWrittenUnchecked(t, a, op, order_id, status, fails) ==
    StatusWritten(t, a, op, order_id, fails,
                  [o \in t.orders |-> [o EXCEPT !.delivery_status = status]])

DeliveryWritten(t, a, op, order_id, status, fails) ==
    IF status \notin allowed
    THEN Answer(t, a, op, 400, order_id, "Invalid delivery status")
    ELSE StatusWritten(t, a, op, order_id, fails,
                       [o \in t.orders |-> [o EXCEPT !.delivery_status = status]])

update_delivery_status(t, a, order_id, status, fails) ==
    DeliveryWritten(t, a, "update_delivery_status", order_id, status, fails)

update_delivery(t, a, order_id, status, fails) ==
    DeliveryWritten(t, a, "update_delivery", order_id, status, fails)

\* the statuses and the awb the requests carry
StatusesAsked == allowed \cup {"READY"}

AwbsAsked == {"", "AWB1"}

\* PUT /orders/{order_id}/mark-paid and the like
MarkPaid(order_id, fails) ==
    /\ pc = "idle"
    /\ OrdersApply("mark_as_paid", order_id, << >>,
                   mark_as_paid(db, autoinc, order_id, fails),
                   mark_as_paid(db, autoinc, order_id, {}), fails)

MarkFulfilled(order_id, fails) ==
    /\ pc = "idle"
    /\ OrdersApply("mark_as_fulfilled", order_id, << >>,
                   mark_as_fulfilled(db, autoinc, order_id, fails),
                   mark_as_fulfilled(db, autoinc, order_id, {}), fails)

MarkDelhivery(order_id, awb, fails) ==
    /\ pc = "idle"
    /\ OrdersApply("mark_as_delhivery", order_id, [awb |-> awb],
                   mark_as_delhivery(db, autoinc, order_id, awb, fails),
                   mark_as_delhivery(db, autoinc, order_id, awb, {}), fails)

MarkInvoiced(order_id, fails) ==
    /\ pc = "idle"
    /\ OrdersApply("mark_as_invoiced", order_id, << >>,
                   mark_as_invoiced(db, autoinc, order_id, fails),
                   mark_as_invoiced(db, autoinc, order_id, {}), fails)

CreateLocalInvoice(order_id, fails) ==
    /\ pc = "idle"
    /\ OrdersApply("create_local_invoice", order_id, << >>,
                   create_local_invoice(db, autoinc, order_id, now, fails),
                   create_local_invoice(db, autoinc, order_id, now, {}), fails)

UpdateDeliveryStatus(order_id, status, fails) ==
    /\ pc = "idle"
    /\ OrdersApply("update_delivery_status", order_id, [status |-> status],
                   update_delivery_status(db, autoinc, order_id, status, fails),
                   update_delivery_status(db, autoinc, order_id, status, {}), fails)

UpdateDelivery(order_id, status, fails) ==
    /\ pc = "idle"
    /\ OrdersApply("update_delivery", order_id, [status |-> status],
                   update_delivery(db, autoinc, order_id, status, fails),
                   update_delivery(db, autoinc, order_id, status, {}), fails)

\* one order, created or synced, and the status requests on it
NextStatus ==
    \/ db.orders = {} /\ CreateOrder(CreateBase, {})
    \/ \E order_id \in OrderIdsAsked, fails \in {{}, {"commit"}} :
          \/ MarkPaid(order_id, fails)
          \/ MarkFulfilled(order_id, fails)
          \/ MarkInvoiced(order_id, fails)
          \/ CreateLocalInvoice(order_id, fails)
          \/ TogglePayment(order_id, fails)
    \/ \E order_id \in OrderIdsAsked, awb \in AwbsAsked, fails \in {{}, {"commit"}} :
          MarkDelhivery(order_id, awb, fails)
    \/ \E order_id \in OrderIdsAsked, status \in StatusesAsked, fails \in {{}, {"commit"}} :
          \/ UpdateDeliveryStatus(order_id, status, fails)
          \/ UpdateDelivery(order_id, status, fails)

SpecStatus == Init /\ [][NextStatus]_vars

\* the statements of delete_order that can raise
DeleteFailCases == {{}, {"items"}, {"transactions"}, {"order"}, {"commit"}}

\* delete_order (lines 721-751): the HTTPException of the missing order is
\* raised inside the try and caught by `except Exception`, as is whatever a
\* statement raises; the rollback leaves the committed tables
delete_order(t, a, order_id, fails) ==
    IF ~\E o \in t.orders : o.order_id = order_id
    THEN Answer(t, a, "delete_order", 500, order_id, "Failed to delete order")
    ELSE IF fails # {}
    THEN Answer(t, a, "delete_order", 500, order_id, "Failed to delete order")
    ELSE Answer([t EXCEPT
                   !.order_items = {r \in @ : r.order_id # order_id},
                   !.device_transaction = {r \in @ : r.order_id # order_id},
                   !.orders = {o \in @ : o.order_id # order_id}],
                a, "delete_order", 200, order_id, "Order deleted successfully")

\* DELETE /orders/{order_id}
DeleteOrder(order_id, fails) ==
    /\ pc = "idle"
    /\ OrdersApply("delete_order", order_id, << >>,
                   delete_order(db, autoinc, order_id, fails),
                   delete_order(db, autoinc, order_id, {}), fails)

\* the order_items rows inserted in one run of the model
MaxItemRows == 4

\* orders are created, given serial numbers and deleted
NextDelete ==
    \/ \E data \in {CreateBase, CreateWeb} :
          autoinc.order_items <= MaxItemRows /\ CreateOrder(data, {})
    \/ \E order_id \in OrderIdsAsked :
          \E entries \in SerialBodies(db, order_id) :
             SaveSerialNumbers(order_id, entries, {})
    \/ \E order_id \in OrderIdsAsked, fails \in DeleteFailCases :
          DeleteOrder(order_id, fails)

SpecDelete == Init /\ [][NextDelete]_vars

-----------------------------------------------------------------------------
(* extract_price_value called on its own: `req` is the call, `resp` the   *)
(* value returned.                                                         *)

\* the kinds of value a key of a line item can hold; numbers differ per key
PriceKinds(n) == {-1, -2, -3, n}

\* the line items the function is explored on: `price` is an object with
\* an amount, an object without one, a scalar, or missing
PriceInputs ==
    {[price_amount |-> pp[1], price |-> pp[2], lineItemPrice_amount |-> a,
      totalPriceAfterTax_amount |-> b, unitPrice |-> c, sellingPrice |-> d,
      total |-> e] :
        pp \in ({<<x, -1>> : x \in PriceKinds(100)}
                \cup {<<-1, y>> : y \in PriceKinds(400) \cup {-4}}),
        a \in PriceKinds(200), b \in PriceKinds(300), c \in PriceKinds(500),
        d \in {-1, 600}, e \in {-1, 700}}

PriceInit ==
    /\ db = EmptyTables /\ sess = EmptyTables /\ autoinc = InitAutoinc
    /\ pc = "idle"
    /\ force = FALSE
    /\ fix = 0
    /\ wix_orders = << >>
    /\ i = 1
    /\ inserted = 0
    /\ skipped = 0
    /\ details = << >>
    /\ loc = Unbound
    /\ report = << >>
    /\ failed_writes = {}
    /\ answered = << >>
    /\ raised = << >>
    /\ now = 1000
    /\ resp = NoResponse
    /\ \E p \in PriceInputs :
          req = [op |-> "extract_price_value", order_id |-> "", data |-> [prices |-> p]]

ExtractPrice ==
    /\ req.op = "extract_price_value"
    /\ resp = NoResponse
    /\ resp' = [op |-> "extract_price_value", status |-> 200, order_id |-> "",
                detail |-> "", value |-> extract_price_value(req.data)]
    /\ UNCHANGED <<db, sess, autoinc, pc, force, fix, wix_orders, i, inserted, skipped,
                   details, loc, report, failed_writes, answered, raised, now, req>>

SpecPrice == PriceInit /\ [][ExtractPrice]_vars

\* the service: a sync request or a reconcile request
\* the response has been sent: the server takes the next request
Served ==
    /\ pc = "done"
    /\ pc' = "idle"
    /\ UNCHANGED <<db, sess, autoinc, force, fix, wix_orders, i, inserted, skipped,
                   details, loc, report, failed_writes, answered, raised, now, resp,
                   req>>

\* create_order requests and Wix syncs, one after the other, as time passes
NextMixed ==
    \/ \E page \in PagesOf({BaseOrder, OrderBob}) : SyncStart(FALSE, page)
    \/ SyncOrder({}, 0)
    \/ SyncFinish
    \/ Served
    \/ \E data \in {CreateBase, CreateOnline} : CreateOrder(data, {})
    \/ Tick

SpecMixed == Init /\ [][NextMixed]_vars

Next == NextSync \/ NextReconcile

Spec == Init /\ [][Next]_vars

-----------------------------------------------------------------------------
(* Properties *)

OrderRows(t, id) == {o \in t.orders : o.order_id = id}

ItemRows(t, id) == {it \in t.order_items : it.order_id = id}

\* a pass of the sync loop / of the reconcile loop
SyncPass == pc = "sync" /\ pc' = "sync" /\ i' = i + 1

ReconcilePass == pc = "reconcile" /\ pc' = "reconcile" /\ i' = i + 1

\* the order's processing failed: the outer except or the order's rollback
Failed(e) ==
    e.status = "skipped" /\ e.reasons \cap {"unexpected", "order_insert_failed"} # {}

\* C1: without force, a remote order whose resolved identifier is already an
\* orders.order_id leaves every table as it was, and, the existence query
\* answering, is counted and reported as skipped with the one reason
\* duplicate_order_id.
C1_DuplicateWritesNothing ==
    [][(SyncPass /\ ~force
        /\ LET id == ResolveOrderId(wix_orders[i], answered'[i])
           IN id # "" /\ OrderRows(sess, id) # {})
       => /\ db' = db /\ sess' = sess
          /\ inserted' = inserted
          /\ skipped' = skipped + 1
          /\ details'[i].status = "skipped"
          /\ raised'[i] = {} =>
                details'[i] = [wix_order_id |-> ResolveOrderId(wix_orders[i], answered'[i]),
                               status |-> "skipped",
                               reasons |-> {"duplicate_order_id"},
                               items |-> << >>]]_vars

\* the same remote order twice in a run without force: inserted, then a duplicate
C1_Witness ==
    /\ pc = "sync" /\ ~force
    /\ \E j, k \in 1..Len(details) :
          /\ j < k
          /\ wix_orders[j] = wix_orders[k]
          /\ details[j].status = "inserted"
          /\ details[k].reasons = {"duplicate_order_id"}

\* C2: no row written while processing an order whose processing failed is
\* ever in the committed database.
C2_FailedOrderNeverCommitted ==
    pc = "sync" => \A r \in failed_writes : r \notin Rows(db)

\* C3: at every point of the run each processed remote order has exactly one
\* details entry, inserted or skipped, the counters count these entries, and
\* the loop stops only at the end of the page.
C3_OneEntryPerOrder ==
    pc = "sync" =>
        /\ i \in 1..(Len(wix_orders) + 1)
        /\ Len(details) = i - 1
        /\ \A k \in 1..Len(details) : details[k].status \in {"inserted", "skipped"}
        /\ inserted = Cardinality({k \in 1..Len(details) : details[k].status = "inserted"})
        /\ skipped = Cardinality({k \in 1..Len(details) : details[k].status = "skipped"})
        /\ inserted + skipped = i - 1

\* the run is over, an order failed and a later one was inserted
C3_Witness ==
    /\ pc = "sync" /\ i = Len(wix_orders) + 1
    /\ inserted + skipped = Len(wix_orders)
    /\ \E j, k \in 1..Len(details) :
          j < k /\ Failed(details[j]) /\ details[k].status = "inserted"

\* C4: a stored order has the remote number as order_id when the number is
\* present, else the number the lookup answered, else the remote id; with
\* none of them the order is skipped as missing_order_id and nothing is written.
C4_OrderIdResolution ==
    [][SyncPass =>
        LET w == wix_orders[i]
            e == details'[i]
            expected == IF w.number # 0 THEN ToString(w.number)
                        ELSE IF answered'[i] # 0 THEN ToString(answered'[i])
                        ELSE w.id
        IN /\ expected = "" =>
                /\ e.status = "skipped" /\ e.reasons = {"missing_order_id"}
                /\ db' = db /\ sess' = sess /\ autoinc' = autoinc
           /\ expected # "" => "missing_order_id" \notin e.reasons
           /\ (e.status = "inserted" /\ OrderRows(sess, e.wix_order_id) = {}) =>
                /\ e.wix_order_id = expected
                /\ OrderRows(db', expected) # {}
                /\ db'.orders \ db.orders \subseteq OrderRows(db', expected) \cup sess.orders]_vars

\* an order without number stored under the number the lookup answered
C4_Witness ==
    /\ pc = "sync"
    /\ \E k \in 1..Len(details) :
          /\ wix_orders[k].number = 0
          /\ answered[k] # 0
          /\ details[k].status = "inserted"
          /\ details[k].wix_order_id = ToString(answered[k])

\* C5: the payment_status the sync has just stored for an order is the one
\* the payment rule (and with it the reconcile) gives for that remote order.
C5_StoredPaymentStatus ==
    (pc = "sync" /\ i > 1 /\ details[i - 1].status = "inserted") =>
        \A o \in OrderRows(db, details[i - 1].wix_order_id) :
            /\ o.payment_status = detect_wix_paid_status(wix_orders[i - 1])
            /\ o.payment_status = "paid" <=>
                  \/ wix_orders[i - 1].totals.paid > 0
                  \/ payment_status_raw_of(wix_orders[i - 1]) \in {"PAID", "ACCEPTED", "SUCCESS"}
                  \/ gateway_status_of(wix_orders[i - 1]) \in {"SUCCESS", "PAID", "CAPTURED"}

\* C6: under force, an existing order processed with no statement failing
\* keeps one orders row, unchanged but for total_items, subtotal,
\* total_amount and payment_status; its previous order_items are gone and
\* one item per remote line item is there instead.
C6_ForceUpdateFrame ==
    [][(SyncPass /\ force /\ raised'[i] = {}
        /\ details'[i].status = "inserted"
        /\ OrderRows(sess, details'[i].wix_order_id) # {})
       => LET id == details'[i].wix_order_id
              w == wix_orders[i]
              old == CHOOSE o \in OrderRows(sess, id) : TRUE
              dicts == {k \in 1..Len(w.lineItems) : w.lineItems[k].isDict}
          IN /\ Cardinality(OrderRows(db', id)) = 1
             /\ Cardinality(db'.orders) = Cardinality(sess.orders)
             /\ \A n \in OrderRows(db', id) :
                   /\ n.order_id = old.order_id
                   /\ n.customer_id = old.customer_id
                   /\ n.offline_customer_id = old.offline_customer_id
                   /\ n.address_id = old.address_id
                   /\ n.delivery_status = old.delivery_status
                   /\ n.channel = old.channel
                   /\ n.order_index = old.order_index
                   /\ n.order_status = old.order_status
                   /\ n.payment_type = old.payment_type
             /\ ItemRows(sess, id) \cap ItemRows(db', id) = {}
             /\ Cardinality(ItemRows(db', id)) = Cardinality(dicts)
             /\ \A it \in ItemRows(db', id) :
                   \E k \in dicts :
                      /\ it.quantity = OrElseNum(w.lineItems[k].quantity, 1)
                      /\ it.unit_price = extract_price_value(w.lineItems[k])]_vars

\* the same order twice in a run under force: inserted, then updated; the
\* row keeps the index and the delivery status it had
C6_Witness ==
    /\ pc = "sync" /\ force
    /\ \E j, k \in 1..Len(details) :
          /\ j < k
          /\ details[j].wix_order_id = details[k].wix_order_id
          /\ details[j].status = "inserted" /\ details[k].status = "inserted"
          /\ raised[k] = {}
          /\ wix_orders[j] # wix_orders[k]

\* C7 (as amended): a reconcile with fix = 0 changes no row of any table
\* and takes no AUTO_INCREMENT value; it only adds to its report.
C7_NoFixNoWrite ==
    [][(pc = "reconcile" /\ fix = 0)
       => /\ db' = db
          /\ autoinc' = autoinc
          /\ (pc' = "reconcile" => sess' = sess)]_vars

\* differences reported under fix = 0, none fixed
C7_Witness ==
    /\ pc = "reconcile" /\ fix = 0
    /\ \E k \in 1..Len(report) :
          /\ ~report[k].error
          /\ {"payment_status", "subtotal"} \subseteq report[k].differences
          /\ report[k].fixed = {}

\* C7 (as stated): corrective writes happen only when fix = 1.
C7_WritesOnlyWhenFixIsOne ==
    [][(pc = "reconcile" /\ fix # 1) => db' = db]_vars

FourFields == {"payment_status", "subtotal", "total_amount", "delivery_status"}

\* the four values computed from the remote order
Computed(w) ==
    [payment_status |-> detect_wix_paid_status(w),
     subtotal |-> wix_amounts(w, wix_subtotal_sum(w.lineItems))[1],
     total_amount |-> wix_amounts(w, wix_subtotal_sum(w.lineItems))[2],
     delivery_status |-> wix_delivery_status_of(w)]

AsComputed(o, w) == \A f \in FourFields : o[f] = Computed(w)[f]

\* the report entry of an order that was found and gone through to the end
Processed(e) == ~e.error /\ "missing_in_db" \notin e.differences

\* C8: after a fixing reconcile has gone through an existing order without a
\* fix_failed entry, the four stored fields are the computed ones; and a
\* reconcile of an order whose four stored fields are the computed ones
\* reports no difference in them, fixes none of them and leaves them.
C8_FourFieldsConverge ==
    [][ReconcilePass =>
        LET w == wix_orders[i]
            e == report'[i]
        IN /\ (fix # 0 /\ Processed(e) /\ e.fix_failed = {}) =>
                /\ OrderRows(db', e.wix_order_id) # {}
                /\ \A o \in OrderRows(db', e.wix_order_id) : AsComputed(o, w)
           /\ (Processed(e) /\ \A o \in OrderRows(sess, e.wix_order_id) : AsComputed(o, w)) =>
                /\ e.differences \cap FourFields = {}
                /\ e.fixed \cap FourFields = {}
                /\ \A o \in OrderRows(db', e.wix_order_id) : AsComputed(o, w)]_vars

\* the same remote order twice in a fixing run: fields fixed, then no
\* difference in them
C8_Witness ==
    /\ pc = "reconcile" /\ fix = 1
    /\ \E j, k \in 1..Len(report) :
          /\ j < k
          /\ wix_orders[j] = wix_orders[k]
          /\ Processed(report[j])
          /\ report[j].fix_failed = {}
          /\ {"payment_status", "subtotal"} \subseteq report[j].fixed
          /\ Processed(report[k])
          /\ report[k].differences \cap FourFields = {}

\* C9: in a fixing reconcile nothing stays uncommitted after an order; a
\* field reported fixed has the computed value in the committed database, a
\* block reported fix_failed has left its rows as committed before, every
\* raising block is reported, and the order has its report entry.
C9_PerFieldCommit ==
    [][(ReconcilePass /\ fix # 0) =>
        LET w == wix_orders[i]
            e == report'[i]
        IN /\ sess' = db'
           /\ Len(report') = i
           /\ Processed(e) =>
                LET old == CHOOSE o \in OrderRows(db, e.wix_order_id) : TRUE
                    new == CHOOSE o \in OrderRows(db', e.wix_order_id) : TRUE
                IN /\ OrderRows(db', e.wix_order_id) # {}
                   /\ e.fix_failed = raised'[i] \cap
                         {"payment_status", "subtotal", "total_amount", "delivery_status",
                          "customer", "address", "line_items"}
                      \/ (e.fix_failed # {} /\ e.fix_failed \subseteq raised'[i])
                   /\ e.fix_failed \cap e.fixed = {}
                   /\ \A f \in FourFields :
                         /\ f \in e.fixed => new[f] = Computed(w)[f]
                         /\ f \in e.fix_failed => new[f] = old[f]
                         /\ f \notin e.differences => new[f] = old[f]
                   /\ "customer" \in e.fix_failed =>
                         /\ db'.customer = db.customer
                         /\ db'.offline_customer = db.offline_customer
                         /\ new.customer_id = old.customer_id
                   /\ "address" \in e.fix_failed =>
                         db'.address = db.address /\ new.address_id = old.address_id
                   /\ "line_items" \in e.fix_failed =>
                         db'.order_items = db.order_items]_vars

\* one field fixed, the next failed, a later one fixed, and the run went on
C9_Witness ==
    /\ pc = "reconcile" /\ fix = 1
    /\ \E k \in 1..Len(report) :
          /\ k < Len(report)
          /\ Processed(report[k])
          /\ "subtotal" \in report[k].fixed
          /\ "delivery_status" \in report[k].fix_failed
          /\ "address" \in report[k].fixed

\* C10: the session never holds two customer rows with the same name,
\* mobile and email.
C10_OneCustomerPerContact ==
    \A r1, r2 \in sess.customer :
        (r1.name = r2.name /\ r1.mobile = r2.mobile /\ r1.email = r2.email) => r1 = r2

\* the first non-empty value of a field over the shipping, billing and
\* buyer information of a remote order
FirstName3(w) ==
    LET Of(b) == FullName(OrElse(b.contactDetails.firstName, b.address.firstName),
                          OrElse(b.contactDetails.lastName, b.address.lastName))
    IN OrElse(Of(w.shippingInfo),
              OrElse(Of(w.billingInfo),
                     FullName(w.buyerInfo.firstName, w.buyerInfo.lastName)))

FirstPhone3(w) ==
    LET Of(b) == OrElseSeq(b.contactDetails.phone, b.address.phone)
    IN OrElseSeq(Of(w.shippingInfo), OrElseSeq(Of(w.billingInfo), w.buyerInfo.phone))

FirstAddressLine3(w) ==
    OrElse(w.shippingInfo.address.addressLine,
           OrElse(w.billingInfo.address.addressLine, w.buyerInfo.addressLine))

\* C11: an address row written by a pass of the sync loop carries, for name,
\* phone and address line, the first non-empty value of that field in the
\* shipping, billing and buyer information of the order (the phone as the
\* digits the sync keeps of it).
C11_ContactFieldsFirstNonEmpty ==
    [][SyncPass =>
         \A r \in sess'.address \ sess.address :
            LET w == wix_orders[i]
                digits == StripNonDigits(FirstPhone3(w))
            IN /\ r.name = OrElse(FirstName3(w), "Wix Customer")
               /\ r.mobile = IF Len(digits) < MIN_PHONE_DIGITS THEN << >> ELSE digits
               /\ r.address_line = FirstAddressLine3(w)]_vars

\* a step in which a request of the orders router is answered
Answered(op) == req'.op = op /\ <<db, resp, req>>' # <<db, resp, req>>

\* the order_items rows create_order is to store for a request body
ExpectedItems(data, order_id, first_id) ==
    {[item_id |-> first_id + k - 1,
      order_id |-> order_id,
      product_id |-> data.items[k].product_id,
      quantity |-> data.items[k].qty,
      unit_price |->
         IF Lower(data.channel) = "offline" THEN data.items[k].final_unit_price
         ELSE data.items[k].final_unit_price
              + (IF data.delivery_charge = 0 \/ SumQty(data.items) = 0 THEN 0
                 ELSE RoundDiv(data.delivery_charge, SumQty(data.items))),
      total_price |->
         data.items[k].qty *
         (IF Lower(data.channel) = "offline" THEN data.items[k].final_unit_price
          ELSE data.items[k].final_unit_price
               + (IF data.delivery_charge = 0 \/ SumQty(data.items) = 0 THEN 0
                  ELSE RoundDiv(data.delivery_charge, SumQty(data.items))))] :
     k \in 1..Len(data.items)}

\* C12: a create_order that succeeds stores, for each item of the request,
\* unit_price = final_unit_price on the offline channel (in any case of the
\* word) and final_unit_price + round(delivery_charge / total quantity, 2) on
\* every other, the share being 0 when the charge or the total quantity is
\* 0, and total_price = unit_price * qty.
C12_DeliveryShare ==
    [][(Answered("create_order") /\ resp'.status = 200)
       => db'.order_items \ db.order_items
             = ExpectedItems(req'.data, resp'.order_id, autoinc.order_items)]_vars

\* stored: an offline order with a charge under another spelling of the
\* channel, and an order of another channel whose items carry the share
C12_Witness ==
    /\ resp.op = "create_order" /\ resp.status = 200
    /\ \E o \in db.orders :
          /\ o.channel = "web"
          /\ \E it \in ItemRows(db, o.order_id) : it.unit_price = 50000 + 3333
    /\ \E o \in db.orders :
          /\ o.channel = "offline" /\ o.order_id = resp.order_id
          /\ \E it \in ItemRows(db, o.order_id) : it.unit_price = 50000

\* total quantity of the line items of a remote order, as the sync reads them
RECURSIVE WixQty(_)
WixQty(lis) ==
    IF lis = << >> THEN 0
    ELSE (IF Head(lis).isDict THEN OrElseNum(Head(lis).quantity, 1) ELSE 0)
         + WixQty(Tail(lis))

\* C13: the order_items rows of an order the sync has inserted carry the
\* extracted line-item price plus the per-unit share of the order's shipping
\* charge (the charge divided by the total line-item quantity).
C13_SyncSpreadsShipping ==
    [][(SyncPass /\ details'[i].status = "inserted")
       => \A r \in ItemRows(sess', details'[i].wix_order_id) :
             \E k \in 1..Len(wix_orders[i].lineItems) :
                LET li == wix_orders[i].lineItems[k]
                    charge == wix_orders[i].totals.shipping
                    total_qty == WixQty(wix_orders[i].lineItems)
                IN /\ li.isDict
                   /\ r.quantity = OrElseNum(li.quantity, 1)
                   /\ r.unit_price = extract_price_value(li)
                                     + (IF charge = 0 \/ total_qty = 0 THEN 0
                                        ELSE RoundDiv(charge, total_qty))]_vars

\* the values under the keys of a line item, in the order price.amount,
\* lineItemPrice.amount, totalPriceAfterTax.amount, price, unitPrice,
\* sellingPrice, total
KeyValues(p) ==
    <<p.price_amount, p.lineItemPrice_amount, p.totalPriceAfterTax_amount, p.price,
      p.unitPrice, p.sellingPrice, p.total>>

\* the same with `price` first, be it an object with an amount or a scalar,
\* and a price object without an amount in the fourth place
KeyValuesPriceFirst(p) ==
    <<p.price_amount, IF p.price = -4 THEN -1 ELSE p.price, p.lineItemPrice_amount,
      p.totalPriceAfterTax_amount, IF p.price = -4 THEN -4 ELSE -1, p.unitPrice,
      p.sellingPrice, p.total>>

\* the value of the first entry of vs that is not in `passed`, 0 when there
\* is none or when no number is in it
FirstKeyValue(vs, passed) ==
    LET ks == {k \in 1..Len(vs) : vs[k] \notin passed}
        v == vs[CHOOSE k \in ks : \A m \in ks : k <= m]
    IN IF ks = {} THEN 0 ELSE IF v < 0 THEN 0 ELSE v

GeneratedSuffix(id) ==
    SetMax({q \in Suffixes : \E c \in CustomerIds : id = Format05d(c) \o "#" \o Format05d(q)})

\* C15: a create_order that succeeds answers with the customer id padded to
\* five digits, '#', and a suffix that is greater than the suffix of every
\* order id generated before, and that order id is not one of an existing
\* order.
C15_SuffixesIncrease ==
    [][(Answered("create_order") /\ resp'.status = 200)
       => /\ \E c \in {req'.data.offline_customer_id, req'.data.customer_id} :
                resp'.order_id = Format05d(c) \o "#"
                                 \o Format05d(GeneratedSuffix(resp'.order_id))
          /\ \A o \in db.orders :
                /\ o.order_id # resp'.order_id
                /\ GeneratedSuffix(o.order_id) < GeneratedSuffix(resp'.order_id)]_vars

\* C16: a toggle_payment that succeeds turns paid into pending with
\* order_status PEND and anything else into paid with order_status APPR,
\* touching nothing else; toggling an order that is paid or pending once more
\* gives back the payment_status it had.
C16_ToggleFlips ==
    [][(Answered("toggle_payment") /\ resp'.status = 200)
       => \E o \in db.orders :
             /\ o.order_id = req'.order_id
             /\ db' = [db EXCEPT !.orders =
                         (@ \ {o}) \cup
                         {[o EXCEPT !.payment_status =
                                       IF o.payment_status = "paid" THEN "pending"
                                       ELSE "paid",
                                    !.order_status =
                                       IF o.payment_status = "paid" THEN "PEND"
                                       ELSE "APPR"]}]
             /\ o.payment_status \in {"paid", "pending"}
                => \E n \in toggle_payment(db', autoinc', o.order_id, {}).t.orders :
                      n.order_id = o.order_id /\ n.payment_status = o.payment_status]_vars

\* an order toggled from pending to paid and back
C16_Witness ==
    /\ resp.op = "toggle_payment" /\ resp.status = 200
    /\ \E o \in db.orders :
          /\ o.order_id = resp.order_id
          /\ o.payment_status = "pending" /\ o.order_status = "PEND"
          /\ o.channel # "wix"

\* C17: save_serial_numbers without entries answers 400 and changes
\* nothing; when it succeeds, for every entry whose item is of the order the
\* trimmed non-blank serials of the entry are OUT rows of the order for the
\* item's SKU and the OUT rows the order had for that SKU before the call are
\* gone; when no entry names an item of the order nothing changes.
C17_SerialsStored ==
    [][Answered("save_serial_numbers")
       => LET oid == req'.order_id
              entries == req'.data
              Known(e) == {it \in db.order_items :
                              it.order_id = oid /\ it.item_id = e.item_id}
              Sku(it) == (CHOOSE p \in db.products : p.product_id = it.product_id).sku_id
          IN /\ entries = << >> => (resp'.status = 400 /\ db' = db)
             /\ (resp'.status = 200 /\ \A k \in 1..Len(entries) : Known(entries[k]) = {})
                => db' = db
             /\ resp'.status = 200
                => \A k \in 1..Len(entries) : \A it \in Known(entries[k]) :
                      /\ \A n \in 1..Len(entries[k].serials) :
                            Strip(entries[k].serials[n]) # ""
                            => \E r \in db'.device_transaction :
                                  /\ r.device_srno = Strip(entries[k].serials[n])
                                  /\ r.order_id = oid
                                  /\ r.sku_id = Sku(it)
                                  /\ r.in_out = 2
                      /\ \A r \in db.device_transaction :
                            (r.order_id = oid /\ r.sku_id = Sku(it) /\ r.in_out = 2)
                            => r \notin db'.device_transaction]_vars

\* C18: when the database is what a sync of a remote order has just
\* inserted, a reconcile pass on the same remote order in which nothing
\* raises finds the local order and reports no difference for it.
FreshlySynced(w) ==
    \E fetched \in FetchAnswers(w) :
       /\ Synced(w, fetched).t.orders # {}
       /\ db = Synced(w, fetched).t

C18_ReconcileAgreesWithSync ==
    [][(/\ pc = "reconcile" /\ pc' = "reconcile" /\ i' = i + 1
        /\ sess = db
        /\ raised'[i] = {}
        /\ FreshlySynced(wix_orders[i]))
       => /\ ~report'[i].error
          /\ report'[i].db_order_id # ""
          /\ report'[i].differences = {}]_vars

\* C19: under every sequence of create_order requests and Wix syncs no two
\* orders have the same order_index and no create_order is refused because
\* its order_index is already taken.
C19_OrderIndexNeverCollides ==
    /\ \A o1, o2 \in db.orders : o1.order_index = o2.order_index => o1 = o2
    /\ ~(resp.op = "create_order" /\ resp.detail = "duplicate_order_index")

\* C20: a create_order that fails, at whatever step, leaves no row of its
\* order stored: the tables are what they were before the request.
C20_CreateAllOrNothing ==
    [][(Answered("create_order") /\ resp'.status # 200) => db' = db]_vars

\* C21: delete_order for an order_id that is not stored answers 404
\* "Order not found" and deletes nothing.
C21_DeleteMissingIs404 ==
    [][(Answered("delete_order") /\ ~\E o \in db.orders : o.order_id = req'.order_id)
       => /\ resp'.status = 404
          /\ resp'.detail = "Order not found"
          /\ db' = db]_vars

\* C22: after a delete_order that succeeds no row of orders, order_items,
\* device_transaction or order_details names the order; after one that
\* fails the tables are what they were.
RowsNaming(t, order_id) ==
    {<<"orders", r>> : r \in {x \in t.orders : x.order_id = order_id}} \cup
    {<<"order_items", r>> : r \in {x \in t.order_items : x.order_id = order_id}} \cup
    {<<"device_transaction", r>> :
        r \in {x \in t.device_transaction : x.order_id = order_id}} \cup
    {<<"order_details", r>> : r \in {x \in t.order_details : x.order_id = order_id}}

C22_DeleteLeavesNoRow ==
    [][(Answered("delete_order") /\ \E o \in db.orders : o.order_id = req'.order_id)
       => IF resp'.status = 200
          THEN RowsNaming(db', req'.order_id) = {}
          ELSE db' = db]_vars

\* C23: every order-status endpoint validates before it writes.  A status
\* outside the allowed ones is refused by delivery-status and update-delivery
\* with 400, whether or not the order exists; an order_id that is not stored
\* is refused with 404 by every endpoint whose status, if it takes one, is
\* allowed; neither changes a row.
StatusOps ==
    {"mark_as_paid", "mark_as_fulfilled", "mark_as_delhivery", "mark_as_invoiced",
     "toggle_payment", "update_delivery_status", "create_local_invoice",
     "update_delivery"}

StatusAnswered == req'.op \in StatusOps /\ Answered(req'.op)

BadStatusAsked ==
    /\ req'.op \in {"update_delivery_status", "update_delivery"}
    /\ req'.data.status \notin {"NOT_SHIPPED", "SHIPPED", "COMPLETED"}

OrderMissing == ~\E o \in db.orders : o.order_id = req'.order_id

C23_StatusEndpointsValidate ==
    [][StatusAnswered
       => /\ BadStatusAsked => (resp'.status = 400 /\ db' = db)
          /\ (OrderMissing /\ ~BadStatusAsked) => (resp'.status = 404 /\ db' = db)]_vars

C23_Witness ==
    /\ resp.op \in {"update_delivery_status", "update_delivery"}
    /\ resp.status = 400
    /\ req.data.status = "READY"
    /\ ~\E o \in db.orders : o.order_id = req.order_id

\* C23 as stated: an order_id that is not stored is refused with 404 by
\* every endpoint, and a status outside the allowed ones with 400.
C23_MissingOrderAlways404 ==
    [][StatusAnswered
       => /\ BadStatusAsked => (resp'.status = 400 /\ db' = db)
          /\ OrderMissing => (resp'.status = 404 /\ db' = db)]_vars

\* C24: in every reachable state the delivery_status of every order is
\* NOT_SHIPPED, SHIPPED or COMPLETED.
C24_DeliveryStatusAllowed ==
    \A o \in db.orders : o.delivery_status \in {"NOT_SHIPPED", "SHIPPED", "COMPLETED"}

\* C25: when a pass of the sync loop has committed an order, first insert
\* or force reprocessing, the order's total_items is the number of its
\* order_items rows and each of these rows names a stored product.
C25_TotalItemsIsItemCount ==
    [][(SyncPass /\ db' # db)
       => \A o \in OrderRows(db', details'[i].wix_order_id) :
             /\ o.total_items = Cardinality(ItemRows(db', o.order_id))
             /\ \A it \in ItemRows(db', o.order_id) :
                   \E p \in db'.products : p.product_id = it.product_id]_vars

====
